---- MODULE Spec2Model ----
(***************************************************************************)
(* Model of the protest-crawling pipeline: crawler.py (HTML table ->       *)
(* grouped events -> VWorld geocoding -> CSV) and integrated_crawler.py    *)
(* (PDF text -> rows -> VWorld geocoding -> CSV).                          *)
(*                                                                         *)
(* Text is a sequence of symbols.  A symbol is one character, written as   *)
(* a one-character string, or a named character that has no ASCII form:    *)
(*   "nbsp" U+00A0, "shy" U+00AD, "wave" U+223C, "endash" U+2013,          *)
(*   "emdash" U+2014, "arrow" U+2192, "refmark" U+203B, "wavedash" U+301C, *)
(*   "ent_nbsp" the HTML entity text for U+00A0, and the Hangul syllables  *)
(*   listed at Hangul.                                                     *)
(***************************************************************************)
EXTENDS Integers, Sequences, FiniteSets, TLC

VARIABLES
  rows,       \* the rows read from the notice (crawler.py) or the PDF (integrated)
  grouped,    \* the events or records of the run
  regrouped,  \* the events of a second grouping of the same rows
  pc,         \* position of the run
  cfg,        \* program and command-line options of the run
  hash_desc,  \* iteration order of sets of strings in this run
  cache,      \* the geocoder's cache: query -> coordinate or None
  geo,        \* locals of the loop over events and places
  fr,         \* locals of the geocoder call in progress
  issued,     \* the external requests sent so far in the run
  last,       \* the last external request and what it gave
  written     \* the tables written by the run

vars == <<rows, grouped, regrouped, pc, cfg, hash_desc, cache, geo, fr, issued, last, written>>


\* the variables of the geocoding runs
runvars == <<cfg, hash_desc, cache, geo, fr, issued, last, written>>
(***************************************************************************)
(* Generic sequence helpers                                                *)
(***************************************************************************)
Range(s) == {s[i] : i \in 1..Len(s)}

NoDup(s) == \A i, j \in 1..Len(s) : s[i] = s[j] => i = j

Min(a, b) == IF a <= b THEN a ELSE b

Prefix(s, n) == SubSeq(s, 1, Min(n, Len(s)))

RECURSIVE Flatten(_)
Flatten(ss) == IF ss = <<>> THEN <<>> ELSE Head(ss) \o Flatten(Tail(ss))

SeqsUpTo(S, n) == UNION {[1..k -> S] : k \in 0..n}

\* F applied to the value of e, e being evaluated once (a local variable)
Bind(e, F(_)) == CHOOSE r \in {F(v) : v \in {e}} : TRUE

(***************************************************************************)
(* Characters                                                              *)
(***************************************************************************)
Digits == {"0", "1", "2", "3", "4", "5", "6", "7", "8", "9"}

DigitVal(c) ==
  CASE c = "0" -> 0 [] c = "1" -> 1 [] c = "2" -> 2 [] c = "3" -> 3
    [] c = "4" -> 4 [] c = "5" -> 5 [] c = "6" -> 6 [] c = "7" -> 7
    [] c = "8" -> 8 [] c = "9" -> 9

DigitChar(n) ==
  CASE n = 0 -> "0" [] n = 1 -> "1" [] n = 2 -> "2" [] n = 3 -> "3"
    [] n = 4 -> "4" [] n = 5 -> "5" [] n = 6 -> "6" [] n = 7 -> "7"
    [] n = 8 -> "8" [] n = 9 -> "9"

\* The Hangul syllables of the model's texts, by their romanised names:
\*   gwang U+AD11, gu U+AD6C, dae U+B300, ro U+B85C, myeong U+BA85, mun U+BB38,
\*   bu U+BD80, san U+C0B0, seo U+C11C, se U+C138, ap U+C55E, ul U+C6B8,
\*   jang U+C7A5, jin U+C9C4, jong U+C885, haeng U+D589, hwa U+D654
Hangul ==
  {"gwang", "gu", "dae", "ro", "myeong", "mun", "bu", "san", "seo", "se", "ap",
   "ul", "jang", "jin", "jong", "haeng", "hwa"}

Latin == {"a", "b", "c", "r"}

HangulCode(c) ==
  CASE c = "gwang" -> 44305 [] c = "gu" -> 44396 [] c = "dae" -> 45824
    [] c = "ro" -> 47196 [] c = "myeong" -> 47749 [] c = "mun" -> 47928
    [] c = "bu" -> 48512 [] c = "san" -> 49328 [] c = "seo" -> 49436
    [] c = "se" -> 49464 [] c = "ap" -> 50526 [] c = "ul" -> 50872
    [] c = "jang" -> 51109 [] c = "jong" -> 51333 [] c = "hwa" -> 54868
    [] c = "jin" -> 51652 [] c = "haeng" -> 54665

\* Code point of a symbol, the order Python compares strings by.
CharCode(c) ==
  CASE c \in Digits -> 48 + DigitVal(c)
    [] c \in Hangul -> HangulCode(c)
    [] c = "\t" -> 9   [] c = "\n" -> 10  [] c = " " -> 32
    [] c = "\"" -> 34  [] c = "(" -> 40   [] c = ")" -> 41
    [] c = "," -> 44   [] c = "-" -> 45   [] c = ":" -> 58
    [] c = "<" -> 60   [] c = ">" -> 62   [] c = "[" -> 91
    [] c = "]" -> 93   [] c = "a" -> 97   [] c = "b" -> 98
    [] c = "c" -> 99   [] c = "r" -> 114  [] c = "|" -> 124
    [] c = "~" -> 126
    [] c = "nbsp" -> 160 [] c = "shy" -> 173
    [] c = "endash" -> 8211 [] c = "emdash" -> 8212 [] c = "refmark" -> 8251
    [] c = "arrow" -> 8594 [] c = "wave" -> 8764 [] c = "wavedash" -> 12316
    [] OTHER -> 65533

\* Python's str < str: by code point, a proper prefix is the smaller.
RECURSIVE StrLess(_, _)
StrLess(a, b) ==
  IF b = <<>> THEN FALSE
  ELSE IF a = <<>> THEN TRUE
  ELSE IF CharCode(Head(a)) # CharCode(Head(b))
       THEN CharCode(Head(a)) < CharCode(Head(b))
  ELSE StrLess(Tail(a), Tail(b))

\* regex \s on str patterns
IsSpace(c) == c \in {" ", "\t", "\n", "nbsp"}

\* the class [ \t ] of normalize_spaces
IsBlank(c) == c \in {" ", "\t", "nbsp"}

(***************************************************************************)
(* crawler.py: normalize_spaces, clean_text                                *)
(***************************************************************************)
RECURSIVE LStrip(_)
LStrip(s) == IF s # <<>> /\ IsSpace(Head(s)) THEN LStrip(Tail(s)) ELSE s

RECURSIVE RStrip(_)
RStrip(s) ==
  IF s # <<>> /\ IsSpace(s[Len(s)]) THEN RStrip(SubSeq(s, 1, Len(s) - 1)) ELSE s

Strip(s) == RStrip(LStrip(s))

\* re.sub(r"[ \t ]+", " ", s): every run of blanks becomes one space
RECURSIVE CollapseBlanks(_)
CollapseBlanks(s) ==
  IF s = <<>> THEN <<>>
  ELSE IF IsBlank(Head(s))
       THEN IF Len(s) >= 2 /\ IsBlank(s[2])
            THEN CollapseBlanks(Tail(s))
            ELSE <<" ">> \o CollapseBlanks(Tail(s))
  ELSE <<Head(s)>> \o CollapseBlanks(Tail(s))

normalize_spaces(s) == Bind(CollapseBlanks(s), LAMBDA x : Strip(x))

html_unescape(s) == [i \in 1..Len(s) |-> IF s[i] = "ent_nbsp" THEN "nbsp" ELSE s[i]]

NotShy(c) == c # "shy"

ReplaceGlyph(c) ==
  CASE c = "nbsp" -> " "
    [] c = "wave" -> "~"
    [] c = "endash" -> "-"
    [] c = "emdash" -> "-"
    [] OTHER -> c

clean_text(s) ==
  IF s = <<>> THEN <<>>
  ELSE Bind(SelectSeq(html_unescape(s), NotShy), LAMBDA v :
       Bind([i \in 1..Len(v) |-> ReplaceGlyph(v[i])], LAMBDA w :
       Bind(CollapseBlanks(w), LAMBDA x : Strip(x))))

(***************************************************************************)
(* crawler.py: TIME_PAT_CELL and parse_time_range                          *)
(***************************************************************************)
IsDigitAt(s, i) == i >= 1 /\ i <= Len(s) /\ s[i] \in Digits

RECURSIVE SkipSpaces(_, _)
SkipSpaces(s, i) ==
  IF i <= Len(s) /\ IsSpace(s[i]) THEN SkipSpaces(s, i + 1) ELSE i

NoMatch == [ok |-> FALSE, h |-> <<>>, m |-> <<>>, end |-> 0]

\* (\d{n})\s*:\s*(\d{2}) at position i, the hour taking exactly n digits
TryHM(s, i, n) ==
  IF ~(\A d \in 0..(n - 1) : IsDigitAt(s, i + d)) THEN NoMatch
  ELSE Bind(SkipSpaces(s, i + n), LAMBDA j :
       IF ~(j <= Len(s) /\ s[j] = ":") THEN NoMatch
       ELSE Bind(SkipSpaces(s, j + 1), LAMBDA k :
            IF IsDigitAt(s, k) /\ IsDigitAt(s, k + 1)
            THEN [ok |-> TRUE, h |-> SubSeq(s, i, i + n - 1),
                  m |-> SubSeq(s, k, k + 1), end |-> k + 2]
            ELSE NoMatch))

\* (\d{1,2})\s*:\s*(\d{2}): greedy hour, backtracking to one digit
MatchHM(s, i) == Bind(TryHM(s, i, 2), LAMBDA a : IF a.ok THEN a ELSE TryHM(s, i, 1))

NoTime == [ok |-> FALSE, sh |-> <<>>, sm |-> <<>>, eh |-> <<>>, em |-> <<>>]

\* TIME_PAT_CELL anchored at position i
TimePatAt(s, i) ==
  IF i >= 2 /\ s[i - 1] \in Digits THEN NoTime
  ELSE Bind(MatchHM(s, i), LAMBDA a :
       IF ~a.ok THEN NoTime
       ELSE Bind(SkipSpaces(s, a.end), LAMBDA j :
            Bind(IF j <= Len(s) /\ s[j] \in {"~", "wave", "-"}
                 THEN Bind(SkipSpaces(s, j + 1), LAMBDA k : MatchHM(s, k))
                 ELSE NoMatch, LAMBDA b :
            IF b.ok
            THEN [ok |-> TRUE, sh |-> a.h, sm |-> a.m, eh |-> b.h, em |-> b.m]
            ELSE [ok |-> TRUE, sh |-> a.h, sm |-> a.m, eh |-> <<>>, em |-> <<>>])))

\* TIME_PAT_CELL.search(s): the leftmost match
TIME_PAT_CELL(s) ==
  Bind({i \in 1..Len(s) : TimePatAt(s, i).ok}, LAMBDA hits :
    IF hits = {} THEN NoTime
    ELSE Bind(CHOOSE i \in hits : \A j \in hits : i <= j, LAMBDA first :
           TimePatAt(s, first)))

\* int(text) of a one- or two-digit string
ToInt(ds) == IF Len(ds) = 1 THEN DigitVal(ds[1]) ELSE 10 * DigitVal(ds[1]) + DigitVal(ds[2])

\* f"{n:02d}" for 0 <= n <= 99
Fmt02d(n) == <<DigitChar(n \div 10), DigitChar(n % 10)>>

parse_time_range(t) ==
  Bind(clean_text(t), LAMBDA s :
  Bind(TIME_PAT_CELL(s), LAMBDA m :
    IF ~m.ok THEN <<<<>>, <<>>>>
    ELSE LET start == Fmt02d(ToInt(m.sh)) \o <<":">> \o Fmt02d(ToInt(m.sm))
             end == IF m.eh # <<>> /\ m.em # <<>>
                    THEN Fmt02d(ToInt(m.eh)) \o <<":">> \o Fmt02d(ToInt(m.em))
                    ELSE <<>>
         IN  <<start, end>>))

(***************************************************************************)
(* crawler.py: unique_preserve_order, group_rows_by_time                   *)
(***************************************************************************)
\* the elements of xs at the positions where the loop finds x not in seen,
\* in the order of the list
unique_preserve_order(xs) ==
  Bind({i \in 1..Len(xs) : \A j \in 1..(i - 1) : xs[j] # xs[i]}, LAMBDA first :
    [k \in 1..Cardinality(first) |->
       xs[CHOOSE i \in first : Cardinality({j \in first : j <= i}) = k]])

NonEmpty(x) == x # <<>>

\* position of the group with this key in the dict (insertion order), 0 if none
GroupIndex(groups, key) ==
  LET hits == {i \in 1..Len(groups) :
                 <<groups[i].start_time, groups[i].end_time>> = key}
  IN  IF hits = {} THEN 0 ELSE CHOOSE i \in hits : TRUE

\* GroupStep with a row's place overwriting the places gathered so far
GroupStep_overwrite(groups, r) ==
  Bind(parse_time_range(r.time), LAMBDA key :
  Bind(clean_text(r.place), LAMBDA place :
  Bind(clean_text(r.route), LAMBDA remark :
  Bind(IF GroupIndex(groups, key) = 0
       THEN Append(groups, [start_time |-> key[1], end_time |-> key[2],
                            places |-> <<>>, remarks |-> <<>>])
       ELSE groups, LAMBDA g0 :
  Bind(GroupIndex(g0, key), LAMBDA k :
  Bind(IF place # <<>>
       THEN [g0 EXCEPT ![k].places = <<place>>] ELSE g0, LAMBDA g1 :
    IF remark # <<>>
    THEN [g1 EXCEPT ![k].remarks = Append(@, remark)] ELSE g1))))))

\* one iteration of the loop over rows (crawler.py lines 424-432)
GroupStep(groups, r) ==
  Bind(parse_time_range(r.time), LAMBDA key :
  Bind(clean_text(r.place), LAMBDA place :
  Bind(clean_text(r.route), LAMBDA remark :
  Bind(IF GroupIndex(groups, key) = 0
       THEN Append(groups, [start_time |-> key[1], end_time |-> key[2],
                            places |-> <<>>, remarks |-> <<>>])
       ELSE groups, LAMBDA g0 :
  Bind(GroupIndex(g0, key), LAMBDA k :
  Bind(IF place # <<>>
       THEN [g0 EXCEPT ![k].places = Append(@, place)] ELSE g0, LAMBDA g1 :
    IF remark # <<>>
    THEN [g1 EXCEPT ![k].remarks = Append(@, remark)] ELSE g1))))))

RECURSIVE GroupFold(_)
GroupFold(rs) ==
  IF rs = <<>> THEN <<>>
  ELSE Bind(GroupFold(SubSeq(rs, 1, Len(rs) - 1)), LAMBDA groups :
         GroupStep(groups, rs[Len(rs)]))

Sentinel == <<"9", "9", ":", "9", "9">>

\* SortKey without the sentinel: an empty time sorts as the empty string
SortKey_nosentinel(g) == <<g.start_time, g.end_time>>

\* key=lambda g: (g["start_time"] or "99:99", g["end_time"] or "99:99")
SortKey(g) ==
  <<IF g.start_time = <<>> THEN Sentinel ELSE g.start_time,
    IF g.end_time = <<>> THEN Sentinel ELSE g.end_time>>

\* tuple comparison of two sort keys
KeyLess(a, b) == StrLess(a[1], b[1]) \/ (a[1] = b[1] /\ StrLess(a[2], b[2]))

\* list.sort is stable: g goes before the first element with a greater key
InsertSorted(out, g) ==
  Bind({i \in 1..Len(out) : KeyLess(SortKey(g), SortKey(out[i]))}, LAMBDA later :
  Bind(IF later = {} THEN Len(out) + 1
       ELSE CHOOSE i \in later : \A j \in later : i <= j, LAMBDA pos :
    SubSeq(out, 1, pos - 1) \o <<g>> \o SubSeq(out, pos, Len(out))))

RECURSIVE StableSort(_)
StableSort(gs) ==
  IF gs = <<>> THEN <<>>
  ELSE Bind(StableSort(SubSeq(gs, 1, Len(gs) - 1)), LAMBDA out :
         InsertSorted(out, gs[Len(gs)]))

group_rows_by_time(rs) ==
  Bind(GroupFold(rs), LAMBDA groups :
  Bind([i \in 1..Len(groups) |->
          [groups[i] EXCEPT
             !.places = unique_preserve_order(SelectSeq(@, NonEmpty)),
             !.remarks = unique_preserve_order(SelectSeq(@, NonEmpty))]], LAMBDA out :
    StableSort(out)))

(***************************************************************************)
(* Inputs of the grouping specification.  The rows that reach              *)
(* group_rows_by_time were cleaned by parse_table_rows (crawler.py lines   *)
(* 359-361), so their texts hold no raw blanks or glyph variants; a cell   *)
(* whose source was escaped twice still carries an entity, which the       *)
(* grouper's own clean_text resolves ("a" + entity nbsp -> "a").           *)
(***************************************************************************)
MaxRows == 3

T_0900_1030 == <<"9", ":", "0", "0", "~", "1", "0", ":", "3", "0">>

T_0900_1030_alt == <<"0", "9", ":", "0", "0", " ", "~", " ", "1", "0", ":", "3", "0">>

T_0900_open == <<"9", ":", "0", "0">>

T_0830_0900 == <<"8", ":", "3", "0", "-", "9", ":", "0", "0">>

T_9999_open == <<"9", "9", ":", "9", "9">>

T_unparseable == <<"a", "b">>

TimeTexts ==
  {T_0900_1030, T_0900_1030_alt, T_0900_open, T_0830_0900, T_9999_open, T_unparseable}

Row(t, p, r) == [time |-> t, place |-> p, route |-> r]

RowSet ==
  { Row(T_0900_1030, <<"a">>, <<>>),
    Row(T_0900_1030_alt, <<"b">>, <<"c">>),
    Row(T_0900_1030_alt, <<"a", "ent_nbsp">>, <<"r">>),
    Row(T_0900_open, <<"a">>, <<>>),
    Row(T_0900_open, <<"b">>, <<"c">>),
    Row(T_0830_0900, <<"b">>, <<"c">>),
    Row(T_0830_0900, <<>>, <<>>),
    Row(T_9999_open, <<"a">>, <<>>),
    Row(T_unparseable, <<"a">>, <<>>),
    Row(T_unparseable, <<"b">>, <<"c">>) }

RowPermutations(n) == {f \in [1..n -> 1..n] : \A i, j \in 1..n : f[i] = f[j] => i = j}

(***************************************************************************)
(* Specification of the grouper: inputs drawn in Init, then grouped, then  *)
(* grouped again in a permuted order                                       *)
(***************************************************************************)
InitGroup ==
  /\ rows \in SeqsUpTo(RowSet, MaxRows)
  /\ grouped = <<>>
  /\ regrouped = <<>>
  /\ pc = "input"
  /\ cfg = <<>> /\ hash_desc = FALSE /\ cache = <<>> /\ geo = <<>> /\ fr = <<>>
  /\ issued = {} /\ last = <<>> /\ written = <<>>

GroupRows ==
  /\ pc = "input"
  /\ grouped' = group_rows_by_time(rows)
  /\ pc' = "grouped"
  /\ UNCHANGED <<rows, regrouped>>
  /\ UNCHANGED runvars

GroupPermuted ==
  /\ pc = "grouped"
  /\ \E f \in RowPermutations(Len(rows)) :
       \E permuted \in {[i \in 1..Len(rows) |-> rows[f[i]]]} :
         /\ rows' = permuted
         /\ regrouped' = group_rows_by_time(permuted)
  /\ pc' = "regrouped"
  /\ UNCHANGED grouped
  /\ UNCHANGED runvars

NextGroup == GroupRows \/ GroupPermuted

SpecGroup == InitGroup /\ [][NextGroup]_vars

(***************************************************************************)
(* String operations of Python used by the geocoders                       *)
(***************************************************************************)
None == <<>>

Sp == <<" ">>

\* [A-Za-z0-9] and the Hangul block of the regular expressions
IsKorEngNum(c) == c \in Hangul \cup Latin \cup Digits

\* regex \w
IsWord(c) == IsKorEngNum(c) \/ c = "_"

StartsAt(s, i, w) == i + Len(w) - 1 <= Len(s) /\ SubSeq(s, i, i + Len(w) - 1) = w

\* needle in hay
Contains(hay, needle) == \E i \in 1..(Len(hay) - Len(needle) + 1) : StartsAt(hay, i, needle)

MinOf(S) == CHOOSE i \in S : \A j \in S : i <= j

RECURSIVE ReplaceFrom(_, _, _, _)
ReplaceFrom(s, i, old, new) ==
  IF i > Len(s) THEN <<>>
  ELSE IF StartsAt(s, i, old) THEN new \o ReplaceFrom(s, i + Len(old), old, new)
  ELSE <<s[i]>> \o ReplaceFrom(s, i + 1, old, new)

\* s.replace(old, new), old not empty
str_replace(s, old, new) == ReplaceFrom(s, 1, old, new)

RECURSIVE TokenEnd(_, _)
TokenEnd(s, i) == IF i <= Len(s) /\ ~IsSpace(s[i]) THEN TokenEnd(s, i + 1) ELSE i

RECURSIVE SplitFrom(_, _)
SplitFrom(s, i) ==
  IF i > Len(s) THEN <<>>
  ELSE IF IsSpace(s[i]) THEN SplitFrom(s, i + 1)
  ELSE Bind(TokenEnd(s, i), LAMBDA e : <<SubSeq(s, i, e - 1)>> \o SplitFrom(s, e))

\* s.split()
str_split(s) == SplitFrom(s, 1)

RECURSIVE JoinWith(_, _)
JoinWith(xs, sep) ==
  IF xs = <<>> THEN <<>>
  ELSE IF Len(xs) = 1 THEN xs[1]
  ELSE xs[1] \o sep \o JoinWith(Tail(xs), sep)

\* re.sub(r"\s+", "", s)
RemoveSpaces(s) == SelectSeq(s, LAMBDA c : ~IsSpace(c))

RECURSIVE CollapseRunsFrom(_, _)
CollapseRunsFrom(s, i) ==
  IF i > Len(s) THEN <<>>
  ELSE IF IsSpace(s[i]) /\ i < Len(s) /\ IsSpace(s[i + 1])
       THEN Sp \o CollapseRunsFrom(s, SkipSpaces(s, i))
  ELSE <<s[i]>> \o CollapseRunsFrom(s, i + 1)

\* re.sub(r"\s{2,}", " ", s).strip()
CollapseRuns(s) == Bind(CollapseRunsFrom(s, 1), LAMBDA t : Strip(t))

Reverse(s) == [i \in 1..Len(s) |-> s[Len(s) + 1 - i]]

RECURSIVE SortedSeq(_)
SortedSeq(S) ==
  IF S = {} THEN <<>>
  ELSE Bind(CHOOSE x \in S : \A y \in S \ {x} : StrLess(x, y), LAMBDA m :
         <<m>> \o SortedSeq(S \ {m}))

(***************************************************************************)
(* Words of the model's place, remark and address texts                    *)
(***************************************************************************)
W_gwanghwamun == <<"gwang", "hwa", "mun">>

W_gwangjang == <<"gwang", "jang">>

W_gwanghwamun_gwangjang == W_gwanghwamun \o W_gwangjang

W_sejongdaero == <<"se", "jong", "dae", "ro">>

W_jongno == <<"jong", "ro">>

W_jongnogu == <<"jong", "ro", "gu">>

W_seodaemungu == <<"seo", "dae", "mun", "gu">>

W_gurogu == <<"gu", "ro", "gu">>

W_gwangjingu == <<"gwang", "jin", "gu">>

W_seoul == <<"seo", "ul">>

W_busan == <<"bu", "san">>

W_ap == <<"ap">>

(***************************************************************************)
(* crawler.py: keyword tables.  A place or remark text of the model is     *)
(* made of the syllables of Hangul, blanks and "|", so each table lists    *)
(* the entries of the source that can be spelled with them; every other    *)
(* entry holds a syllable that no text of the model contains and so can    *)
(* match none of them.                                                     *)
(***************************************************************************)
JONGNO_KEYWORDS == {W_jongnogu, W_gwanghwamun, W_gwanghwamun_gwangjang, W_jongno}

GU_PATTERN == <<W_jongnogu, W_gwangjingu, W_seodaemungu, W_gurogu>>

POLICE_TO_GU ==
  << [k |-> <<"jong", "ro", "seo">>, gu |-> W_jongnogu],
     [k |-> <<"seo", "dae", "mun", "seo">>, gu |-> W_seodaemungu],
     [k |-> <<"gu", "ro", "seo">>, gu |-> W_gurogu],
     [k |-> <<"gwang", "jin", "seo">>, gu |-> W_gwangjingu] >>

WING_TOKENS == {}

NOISE_TOKENS == {W_ap}

SPACING_KEYWORDS == {W_gwangjang}

\* pat: the syllables, \s* allowed between them; wb: the pattern ends with \b
ALIAS_MAP ==
  << [pat |-> W_gwanghwamun_gwangjang, wb |-> FALSE, rep |-> W_gwanghwamun_gwangjang],
     [pat |-> W_gwanghwamun, wb |-> TRUE, rep |-> W_gwanghwamun] >>

\* each pattern is [class]+suffix\b, given by its alternative suffixes
CTX_PATTERNS == << {<<"dae", "ro">>, <<"ro">>}, {W_gwangjang}, {<<"mun">>} >>

KEY_PRIO == {W_gwanghwamun, W_gwanghwamun_gwangjang, W_sejongdaero, W_jongno}

LANDMARKS == {W_gwanghwamun, W_sejongdaero, W_jongno}

CtxLimit == 3

PrefixTop == 20

MaxQueries == 50

(***************************************************************************)
(* crawler.py: is_jongno_related, filter_for_jongno                        *)
(***************************************************************************)
is_jongno_related(place, route) ==
  Bind(place \o <<"\n">> \o route, LAMBDA blob :
    \E kw \in JONGNO_KEYWORDS : Contains(blob, kw))

filter_for_jongno(rs) == SelectSeq(rs, LAMBDA r : is_jongno_related(r.place, r.route))

(***************************************************************************)
(* crawler.py: extract_gu                                                  *)
(***************************************************************************)
GuAt(text, i) == {k \in 1..Len(GU_PATTERN) : StartsAt(text, i, GU_PATTERN[k])}

extract_gu(text) ==
  IF text = <<>> THEN None
  ELSE Bind({i \in 1..Len(text) : GuAt(text, i) # {}}, LAMBDA hits :
    IF hits # {} THEN GU_PATTERN[MinOf(GuAt(text, MinOf(hits)))]
    ELSE Bind({k \in 1..Len(POLICE_TO_GU) : Contains(text, POLICE_TO_GU[k].k)}, LAMBDA ks :
           IF ks = {} THEN None ELSE POLICE_TO_GU[MinOf(ks)].gu))

(***************************************************************************)
(* crawler.py: place normalisation.  The substitutions on full-width       *)
(* digits, exit glyphs, Latin letters or digits next to Hangul, exit       *)
(* numbers and lane counts each need a symbol that no place text of the    *)
(* model holds; what acts on the model's texts is the trimming, the        *)
(* bracket removal and the collapsing of blank runs.                       *)
(***************************************************************************)
normalize_tokens_basic(place) == Bind(Strip(place), LAMBDA t : CollapseRuns(t))

BRACKETS == {"(", ")", "[", "]", "{", "}"}

strip_parentheses_and_noise(s) ==
  Bind([i \in 1..Len(s) |-> IF s[i] \in BRACKETS THEN " " ELSE s[i]], LAMBDA t :
    CollapseRuns(t))

split_core_and_wing(s) ==
  Bind(str_split(s), LAMBDA tokens :
    [core |-> Strip(JoinWith(SelectSeq(tokens,
                 LAMBDA tk : tk \notin WING_TOKENS /\ tk \notin NOISE_TOKENS), Sp)),
     wings |-> SelectSeq(tokens, LAMBDA tk : tk \in WING_TOKENS)])

\* list(a set of strings): the iteration order depends on the hash seed of the
\* run; the model takes it ascending or descending by code point
list_of_set(S) == IF hash_desc THEN Reverse(SortedSeq(S)) ELSE SortedSeq(S)

\* the branches that add synonyms are for wing tokens outside WING_TOKENS
expand_wing_synonyms(wings) == list_of_set(Range(wings))

add_spacing_variants(name) ==
  list_of_set({name} \cup {str_replace(name, kw, Sp \o kw) : kw \in SPACING_KEYWORDS})

(***************************************************************************)
(* crawler.py: apply_aliases                                               *)
(***************************************************************************)
\* end of a match of pat[k..] at position i with \s* between syllables, or 0
RECURSIVE SpacedEnd(_, _, _, _)
SpacedEnd(s, i, pat, k) ==
  IF ~(i <= Len(s) /\ s[i] = pat[k]) THEN 0
  ELSE IF k = Len(pat) THEN i
  ELSE SpacedEnd(s, SkipSpaces(s, i + 1), pat, k + 1)

AliasSearch(name, a) ==
  \E i \in 1..Len(name) :
    Bind(SpacedEnd(name, i, a.pat, 1), LAMBDA e :
      e > 0 /\ (a.wb => (e = Len(name) \/ ~IsWord(name[e + 1]))))

NormalizedNonEmpty(xs) ==
  Bind(SelectSeq(xs, NonEmpty), LAMBDA ys :
    [i \in 1..Len(ys) |-> normalize_spaces(ys[i])])

apply_aliases(name) ==
  Bind(SelectSeq(ALIAS_MAP, LAMBDA a : AliasSearch(name, a)), LAMBDA found :
    unique_preserve_order(
      NormalizedNonEmpty(<<name>> \o [i \in 1..Len(found) |-> found[i].rep])))

(***************************************************************************)
(* crawler.py: extract_context_terms                                       *)
(***************************************************************************)
\* last position of the run of [A-Za-z0-9 Hangul] that starts at i
RECURSIVE RunEnd(_, _)
RunEnd(s, i) == IF i < Len(s) /\ IsKorEngNum(s[i + 1]) THEN RunEnd(s, i + 1) ELSE i

\* end of a match of [class]+(suffix)\b at position i, or 0: the greedy run can
\* only end where the class run ends, since \b fails between two word symbols
CtxMatchEnd(s, i, sufs) ==
  IF ~IsKorEngNum(s[i]) THEN 0
  ELSE Bind(RunEnd(s, i), LAMBDA e :
         IF /\ (e = Len(s) \/ ~IsWord(s[e + 1]))
            /\ \E suf \in sufs :
                 Len(suf) < e - i + 1 /\ SubSeq(s, e - Len(suf) + 1, e) = suf
         THEN e ELSE 0)

\* re.finditer(pat, s) from position i: the matched texts, left to right
RECURSIVE FindIter(_, _, _)
FindIter(s, i, sufs) ==
  IF i > Len(s) THEN <<>>
  ELSE Bind(CtxMatchEnd(s, i, sufs), LAMBDA e :
         IF e > 0 THEN <<SubSeq(s, i, e)>> \o FindIter(s, e + 1, sufs)
         ELSE FindIter(s, i + 1, sufs))

\* key=lambda x: (0 if any(k in x for k in key_prio) else 1, len(x))
CtxKey(x) == <<IF \E k \in KEY_PRIO : Contains(x, k) THEN 0 ELSE 1, Len(x)>>

PairLess(a, b) == a[1] < b[1] \/ (a[1] = b[1] /\ a[2] < b[2])

CtxInsert(out, x) ==
  Bind({i \in 1..Len(out) : PairLess(CtxKey(x), CtxKey(out[i]))}, LAMBDA later :
  Bind(IF later = {} THEN Len(out) + 1 ELSE MinOf(later), LAMBDA pos :
    SubSeq(out, 1, pos - 1) \o <<x>> \o SubSeq(out, pos, Len(out))))

RECURSIVE CtxSort(_)
CtxSort(xs) ==
  IF xs = <<>> THEN <<>>
  ELSE Bind(CtxSort(SubSeq(xs, 1, Len(xs) - 1)), LAMBDA out :
         CtxInsert(out, xs[Len(xs)]))

extract_context_terms(text) ==
  IF text = <<>> THEN <<>>
  ELSE Bind(Flatten([k \in 1..Len(CTX_PATTERNS) |-> FindIter(text, 1, CTX_PATTERNS[k])]),
         LAMBDA ms :
       Bind(unique_preserve_order(NormalizedNonEmpty(ms)), LAMBDA found :
       Bind(CtxSort(found), LAMBDA sorted :
         Prefix(sorted, CtxLimit))))

(***************************************************************************)
(* crawler.py: build_query_candidates                                      *)
(***************************************************************************)
\* the strings xs passed to add() in this order
AddAll(xs) ==
  Bind([i \in 1..Len(xs) |-> normalize_spaces(xs[i])], LAMBDA ys :
    unique_preserve_order(SelectSeq(ys, NonEmpty)))

\* f"{a} {b}" for every a (outer loop) and b (inner loop)
Combine(as, bs) == Flatten([i \in 1..Len(as) |-> [j \in 1..Len(bs) |-> as[i] \o Sp \o bs[j]]])

build_query_candidates(place, remarks_joined) ==
  Bind(normalize_tokens_basic(place), LAMBDA base0 :
  Bind(strip_parentheses_and_noise(base0), LAMBDA base1 :
  Bind(split_core_and_wing(base1), LAMBDA cw :
  Bind(expand_wing_synonyms(cw.wings), LAMBDA wing_syns :
  Bind(IF cw.core # <<>> THEN add_spacing_variants(cw.core) ELSE <<>>, LAMBDA core_vars :
  Bind(IF base1 # <<>> THEN add_spacing_variants(base1) ELSE <<>>, LAMBDA base_vars :
  Bind(unique_preserve_order(<<cw.core>> \o core_vars \o <<base1>> \o base_vars), LAMBDA nms :
  Bind(unique_preserve_order(Flatten([i \in 1..Len(nms) |-> apply_aliases(nms[i])])),
       LAMBDA alias_vars :
  Bind(extract_gu(place \o Sp \o remarks_joined), LAMBDA gu :
  Bind(extract_context_terms(remarks_joined), LAMBDA ctx_terms :
  Bind(AddAll(Flatten([i \in 1..Len(core_vars) |->
                 <<core_vars[i]>> \o Combine(<<core_vars[i]>>, cw.wings)
                                  \o Combine(<<core_vars[i]>>, wing_syns)])
              \o alias_vars
              \o (IF base1 # <<>> THEN <<base1>> ELSE <<>>)
              \o base_vars), LAMBDA cand0 :
  Bind(unique_preserve_order(Combine(cand0, ctx_terms) \o cand0), LAMBDA cand :
  Bind((IF gu # None THEN <<W_seoul \o Sp \o gu>> ELSE <<>>) \o <<W_seoul>>, LAMBDA prefixes :
  Bind(Combine(prefixes, Prefix(cand, PrefixTop)), LAMBDA front :
    [queries |-> Prefix(unique_preserve_order(front \o cand), MaxQueries),
     core |-> cw.core,
     ctx_terms |-> ctx_terms]))))))))))))))

(***************************************************************************)
(* crawler.py: bounding boxes and the choice among the items of a place    *)
(* search.  A coordinate is a whole number of thousandths of a degree.     *)
(* An item of the search API is [title, address, point], point being None  *)
(* or [x |-> longitude, y |-> latitude].  A list of items is written as a  *)
(* sequence of runs, [it, n] standing for n consecutive copies of item it. *)
(***************************************************************************)
BBOXES ==
  [seoul    |-> <<37380, 37720, 126760, 127180>>,
   jj_loose |-> <<37530, 37610, 126950, 127030>>,
   jj_tight |-> <<37550, 37600, 126960, 127020>>]

_in_bbox(lat, lon, bbox) ==
  bbox[1] <= lat /\ lat <= bbox[2] /\ bbox[3] <= lon /\ lon <= bbox[4]

HasXY(it) == it.point # None

\* k in json.dumps(it): the item's texts are its title and its address
InJson(it, k) == Contains(it.title, k) \/ Contains(it.address, k)

core_match_score(needle_n, title) ==
  IF needle_n = <<>> THEN 0
  ELSE Bind(RemoveSpaces(title), LAMBDA t :
         IF needle_n = t THEN 6 ELSE IF Contains(t, needle_n) THEN 3 ELSE 0)

\* the weight of the box in score(): "Latin" Seoul cannot be spelled in the model
BoxScore(it, bbox, bbox_mode) ==
  IF HasXY(it) /\ bbox # None
  THEN Bind(_in_bbox(it.point.y, it.point.x, bbox), LAMBDA inside :
         IF bbox_mode = "boost" THEN (IF inside THEN 5 ELSE -5)
         ELSE IF bbox_mode = "strict" THEN (IF inside THEN 100 ELSE -100)
         ELSE 0)
  ELSE 0

score(it, gu_hint, needle, ctx_terms, bbox, bbox_mode) ==
    (IF InJson(it, W_seoul) THEN 3 ELSE 0)
  + (IF gu_hint # None /\ InJson(it, gu_hint) THEN 4 ELSE 0)
  + (IF Contains(it.address \o Sp, W_seoul) THEN 2 ELSE -1)
  + core_match_score(RemoveSpaces(needle), it.title)
  + 2 * Cardinality({i \in 1..Len(ctx_terms) :
                       \/ Contains(it.title, ctx_terms[i])
                       \/ Contains(it.address \o Sp, ctx_terms[i])})
  + Cardinality({k \in LANDMARKS : InJson(it, k)})
  + BoxScore(it, bbox, bbox_mode)

\* sorted(items, key=score, reverse=True) on runs: by descending score, runs
\* of equal score in their order of the list (the sort is stable and the
\* copies of a run score equal, so a run stays together)
RankInsert(out, e) ==
  Bind({i \in 1..Len(out) : out[i].sc < e.sc}, LAMBDA lower :
  Bind(IF lower = {} THEN Len(out) + 1 ELSE MinOf(lower), LAMBDA pos :
    SubSeq(out, 1, pos - 1) \o <<e>> \o SubSeq(out, pos, Len(out))))

RECURSIVE RankSort(_)
RankSort(es) ==
  IF es = <<>> THEN <<>>
  ELSE Bind(RankSort(SubSeq(es, 1, Len(es) - 1)), LAMBDA out :
         RankInsert(out, es[Len(es)]))

\* number of items in the runs before run k
RECURSIVE CountBefore(_, _)
CountBefore(runs, k) == IF k <= 1 THEN 0 ELSE runs[k - 1].n + CountBefore(runs, k - 1)

\* len(items)
ItemCount(runs) == CountBefore(runs, Len(runs) + 1)

TopN == 20

\* _choose_best_item with the in-box item looked for in the whole ranking
_choose_best_item_anyrank(items, gu_hint, needle, ctx_terms, bbox, bbox_mode) ==
  IF items = <<>> THEN None
  ELSE Bind([i \in 1..Len(items) |->
               [it |-> items[i].it, n |-> items[i].n,
                sc |-> score(items[i].it, gu_hint, needle, ctx_terms, bbox, bbox_mode)]],
         LAMBDA es :
       Bind(RankSort(es), LAMBDA ranked :
         IF bbox # None /\ bbox_mode \in {"boost", "strict"}
         THEN Bind({k \in 1..Len(ranked) :
                      /\ HasXY(ranked[k].it)
                      /\ _in_bbox(ranked[k].it.point.y, ranked[k].it.point.x, bbox)},
                LAMBDA hits :
                IF hits # {} THEN ranked[MinOf(hits)].it ELSE ranked[1].it)
         ELSE ranked[1].it))

\* lines 737-751
_choose_best_item(items, gu_hint, needle, ctx_terms, bbox, bbox_mode) ==
  IF items = <<>> THEN None
  ELSE Bind([i \in 1..Len(items) |->
               [it |-> items[i].it, n |-> items[i].n,
                sc |-> score(items[i].it, gu_hint, needle, ctx_terms, bbox, bbox_mode)]],
         LAMBDA es :
       Bind(RankSort(es), LAMBDA ranked :
         IF bbox # None /\ bbox_mode \in {"boost", "strict"}
         THEN Bind({k \in 1..Len(ranked) :
                      /\ CountBefore(ranked, k) < TopN
                      /\ HasXY(ranked[k].it)
                      /\ _in_bbox(ranked[k].it.point.y, ranked[k].it.point.x, bbox)},
                LAMBDA hits :
                IF hits # {} THEN ranked[MinOf(hits)].it ELSE ranked[1].it)
         ELSE ranked[1].it))

(***************************************************************************)
(* The external VWorld API as the model sees it.  A request ends in one of *)
(*   "timeout"  no response: session.get raises requests.RequestException, *)
(*   "status"   a response with a status other than 200,                   *)
(*   "shape"    status 200 with a JSON body that is not an object of the   *)
(*              expected shape: reading its fields raises AttributeError,  *)
(*   "ok"       status 200 with a well-formed body: the items of a place   *)
(*              search, or the point (or None) of an address lookup.       *)
(***************************************************************************)
MaxItems == 2

PageSize == 30

PageCount == 2

P_gwanghwamun == [x |-> 126980, y |-> 37570]

P_busan == [x |-> 129080, y |-> 35180]

IT_plaza ==
  [title |-> W_gwanghwamun_gwangjang,
   address |-> W_seoul \o Sp \o W_jongnogu \o Sp \o W_sejongdaero,
   point |-> P_gwanghwamun]

IT_busan == [title |-> W_gwanghwamun, address |-> W_busan, point |-> P_busan]

IT_nopoint ==
  [title |-> W_gwanghwamun_gwangjang, address |-> W_seoul \o Sp \o W_jongnogu,
   point |-> None]

\* a namesake on a street of Busan whose name holds the syllables of Seoul
IT_seoulro ==
  [title |-> W_gwanghwamun, address |-> W_busan \o Sp \o W_seoul \o <<"ro">>,
   point |-> P_busan]

Items == {IT_plaza, IT_busan, IT_seoulro, IT_nopoint}

\* the list of the items l[1], l[2], ...
Singles(l) == [i \in 1..Len(l) |-> [it |-> l[i], n |-> 1]]

\* a page that holds PageSize copies of one item
FullPage(it) == <<[it |-> it, n |-> PageSize]>>

ItemLists == {Singles(l) : l \in SeqsUpTo(Items, MaxItems)} \cup {FullPage(it) : it \in Items}

Failures == {"timeout", "status", "shape"}

PlaceResponses ==
  {[kind |-> k, items |-> <<>>] : k \in Failures}
    \cup {[kind |-> "ok", items |-> l] : l \in ItemLists}

AddrResponses ==
  {[kind |-> k, point |-> None] : k \in Failures}
    \cup {[kind |-> "ok", point |-> p] : p \in {None, P_gwanghwamun, P_busan}}

(***************************************************************************)
(* crawler.py: geocode_vworld_candidates, one external request per step    *)
(***************************************************************************)
AddrFirst == 4

AddrAlso == 2

CacheStore == 8

\* lines 784-789
addr_try(queries, gu_hint) ==
  Bind(Prefix(queries, AddrFirst), LAMBDA qs :
    Flatten([i \in 1..Len(qs) |->
               (IF gu_hint # None
                THEN <<W_seoul \o Sp \o gu_hint \o Sp \o qs[i]>> ELSE <<>>)
                 \o <<W_seoul \o Sp \o qs[i]>>])
      \o Prefix(queries, AddrAlso))

\* line 806: f"seoul {gu_hint or ''} {ctx}".strip()
ctx_query(gu_hint, ctx) == Strip(W_seoul \o Sp \o gu_hint \o Sp \o ctx)

PlaceCall(i) == [phase |-> "place", i |-> i, page |-> 1, items_all |-> <<>>, addr_type |-> None]

AddrCall(i, ty) == [phase |-> "addr", i |-> i, page |-> 1, items_all |-> <<>>, addr_type |-> ty]

CtxCall(i) == [phase |-> "ctx", i |-> i, page |-> 1, items_all |-> <<>>, addr_type |-> None]

\* the first request of the context-only pass (line 803), None if there is none
EnterCtx(g) == IF g.ctx_terms # <<>> THEN CtxCall(1) ELSE None

\* the first request of the address fallback (line 790)
EnterAddr(g) ==
  IF addr_try(g.queries, g.gu_hint) # <<>> THEN AddrCall(1, "road") ELSE EnterCtx(g)

\* the first request of geocode_vworld_candidates (line 765)
EnterPlace(g) == IF g.queries # <<>> THEN PlaceCall(1) ELSE EnterAddr(g)

\* NextCall with the address fallback entered after the first candidate
NextCall_oneplace(g, f) ==
  CASE f.phase = "place" -> EnterAddr(g)
    [] f.phase = "addr" ->
         IF f.addr_type = "road" THEN AddrCall(f.i, "parcel")
         ELSE IF f.i < Len(addr_try(g.queries, g.gu_hint)) THEN AddrCall(f.i + 1, "road")
         ELSE EnterCtx(g)
    [] f.phase = "ctx" ->
         IF f.i < Len(g.ctx_terms) THEN CtxCall(f.i + 1) ELSE None

\* the request that follows a request that gave no accepted result
NextCall(g, f) ==
  CASE f.phase = "place" ->
         IF f.i < Len(g.queries) THEN PlaceCall(f.i + 1) ELSE EnterAddr(g)
    [] f.phase = "addr" ->
         IF f.addr_type = "road" THEN AddrCall(f.i, "parcel")
         ELSE IF f.i < Len(addr_try(g.queries, g.gu_hint)) THEN AddrCall(f.i + 1, "road")
         ELSE EnterCtx(g)
    [] f.phase = "ctx" ->
         IF f.i < Len(g.ctx_terms) THEN CtxCall(f.i + 1) ELSE None

\* the query string of the request at position f
CallQuery(g, f) ==
  CASE f.phase = "place" -> g.queries[f.i]
    [] f.phase = "addr" -> addr_try(g.queries, g.gu_hint)[f.i]
    [] f.phase = "ctx" -> ctx_query(g.gu_hint, g.ctx_terms[f.i])

\* the service a request goes to
CallApi(f) == IF f.phase = "addr" THEN f.addr_type ELSE "place"

\* lines 779 and 819 with the box checked before returning
PlaceReturns_inbox(best, bbox) ==
  best # None /\ HasXY(best) /\ _in_bbox(best.point.y, best.point.x, bbox)

\* lines 779 and 819: the chosen item has a coordinate
PlaceReturns(best, bbox) == best # None /\ HasXY(best)

\* lines 793-794 and 798-799: both modes accept an address coordinate in the
\* box only
AddrReturns(got, bbox, bbox_mode) ==
  \/ bbox = None
  \/ bbox_mode = "boost" /\ _in_bbox(got.y, got.x, bbox)
  \/ bbox_mode = "strict" /\ _in_bbox(got.y, got.x, bbox)

\* (lat, lon) of a point
LatLon(p) == <<p.y, p.x>>

(***************************************************************************)
(* crawler.py: geocode_grouped_inplace                                     *)
(***************************************************************************)
\* lines 848-855: the first truthy cached value among the queries, else None
CacheLookup(queries, c) ==
  Bind({i \in 1..Len(queries) : queries[i] \in DOMAIN c /\ c[queries[i]] # None},
       LAMBDA hits :
    IF hits = {} THEN None ELSE c[queries[MinOf(hits)]])

\* cache[q] = hit for every q of qs
CachePut(c, qs, hit) ==
  [q \in DOMAIN c \cup qs |-> IF q \in qs THEN hit ELSE c[q]]

\* AppendHit with nothing appended for a place without result
AppendHit_skipnone(g, hit) ==
  IF hit = None THEN [g EXCEPT !.p = @ + 1]
  ELSE [g EXCEPT !.lats = Append(@, <<hit[1]>>),
                 !.lons = Append(@, <<hit[2]>>),
                 !.p = @ + 1]

\* lats.append(hit[0] if hit else None); lons.append(hit[1] if hit else None).
\* An entry of a list of latitudes or longitudes is None or <<c>>, c being the
\* coordinate.
AppendHit(g, hit) ==
  [g EXCEPT !.lats = Append(@, IF hit # None THEN <<hit[1]>> ELSE None),
            !.lons = Append(@, IF hit # None THEN <<hit[2]>> ELSE None),
            !.p = @ + 1]

\* " | ".join(remarks)
remark_context(ev) == JoinWith(ev.remarks, <<" ", "|", " ">>)

\* line 835
event_gu_hint(ev) == extract_gu(JoinWith(ev.places, Sp) \o Sp \o remark_context(ev))

(***************************************************************************)
(* json.dumps(list of strings, ensure_ascii=False) as both programs call   *)
(* it; the model's texts hold no quote, backslash or control symbol that   *)
(* json would escape                                                       *)
(***************************************************************************)
json_dumps(xs) ==
  <<"[">> \o JoinWith([i \in 1..Len(xs) |-> <<"\"">> \o xs[i] \o <<"\"">>], <<",", " ">>)
         \o <<"]">>

(***************************************************************************)
(* integrated_crawler.py: parse_pdf.  The text of a PDF is made of digits, *)
(* ":", "~", ",", blanks, newlines, "<", ">", "[", "]", the arrow and      *)
(* syllables of Hangul.  A match of a pattern is [ok, from, to, text]:     *)
(* it covers the positions from..to-1 and text is what the code takes      *)
(* from it.                                                                *)
(***************************************************************************)
NoSpan == [ok |-> FALSE, from |-> 0, to |-> 0, text |-> <<>>]

\* the end of the run of \s that starts at i, if the run holds a newline
\* (\s*\n\s* followed by a symbol that is no \s), else 0
BreakEnd(s, i) ==
  Bind(SkipSpaces(s, i), LAMBDA j : IF \E k \in i..(j - 1) : s[k] = "\n" THEN j ELSE 0)

\* (\d{n})\s*\n\s*:\s*(\d{2}) at position i; text is \1:\2
HourBreakAt(s, i, n) ==
  IF ~(\A d \in 0..(n - 1) : IsDigitAt(s, i + d)) THEN NoSpan
  ELSE Bind(BreakEnd(s, i + n), LAMBDA j :
       IF j = 0 \/ ~(j <= Len(s) /\ s[j] = ":") THEN NoSpan
       ELSE Bind(SkipSpaces(s, j + 1), LAMBDA k :
            IF IsDigitAt(s, k) /\ IsDigitAt(s, k + 1)
            THEN [ok |-> TRUE, from |-> i, to |-> k + 2,
                  text |-> SubSeq(s, i, i + n - 1) \o <<":">> \o SubSeq(s, k, k + 1)]
            ELSE NoSpan))

\* (\d{1,2}\s*:\s*\d{2})\s*\n\s*~\s*\n\s*(\d{1,2}\s*:\s*\d{2}) at i; text is \1~\2
TildeBreakAt(s, i) ==
  Bind(MatchHM(s, i), LAMBDA a :
    IF ~a.ok THEN NoSpan
    ELSE Bind(BreakEnd(s, a.end), LAMBDA j :
         IF j = 0 \/ ~(j <= Len(s) /\ s[j] = "~") THEN NoSpan
         ELSE Bind(BreakEnd(s, j + 1), LAMBDA k :
              IF k = 0 THEN NoSpan
              ELSE Bind(MatchHM(s, k), LAMBDA b :
                   IF ~b.ok THEN NoSpan
                   ELSE [ok |-> TRUE, from |-> i, to |-> b.end,
                         text |-> SubSeq(s, i, a.end - 1) \o <<"~">>
                                    \o SubSeq(s, k, b.end - 1)]))))

\* TIME_RE at position i; text is <<start_t, end_t>>, blanks removed
TIME_RE(s, i) ==
  Bind(MatchHM(s, i), LAMBDA a :
    IF ~a.ok THEN NoSpan
    ELSE Bind(SkipSpaces(s, a.end), LAMBDA j :
         IF ~(j <= Len(s) /\ s[j] = "~") THEN NoSpan
         ELSE Bind(MatchHM(s, SkipSpaces(s, j + 1)), LAMBDA b :
              IF ~b.ok THEN NoSpan
              ELSE [ok |-> TRUE, from |-> i, to |-> b.end,
                    text |-> <<a.h \o <<":">> \o a.m, b.h \o <<":">> \o b.m>>])))

\* <[^>]+> at position i; text is what lies between the brackets
TagAt(s, i) ==
  IF s[i] # "<" THEN NoSpan
  ELSE Bind({j \in (i + 1)..Len(s) : s[j] = ">"}, LAMBDA cl :
       IF cl = {} \/ MinOf(cl) = i + 1 THEN NoSpan
       ELSE [ok |-> TRUE, from |-> i, to |-> MinOf(cl) + 1,
             text |-> SubSeq(s, i + 1, MinOf(cl) - 1)])

\* the suffix alternatives of CONTEXT_TOKEN_PAT the model's syllables spell, in
\* the order of the pattern
CONTEXT_TOKEN_PAT == << <<"dae", "ro">>, <<"ro">>, W_gwangjang >>

\* CONTEXT_TOKEN_PAT at position i: the class takes as much of the run as
\* leaves a suffix after it, and at least two symbols
ContextTokenAt(s, i) ==
  IF ~IsKorEngNum(s[i]) THEN NoSpan
  ELSE Bind({k \in (i + 1)..RunEnd(s, i) :
               \E a \in 1..Len(CONTEXT_TOKEN_PAT) : StartsAt(s, k + 1, CONTEXT_TOKEN_PAT[a])},
            LAMBDA ks :
       IF ks = {} THEN NoSpan
       ELSE Bind(CHOOSE k \in ks : \A l \in ks : l <= k, LAMBDA k :
            Bind(MinOf({a \in 1..Len(CONTEXT_TOKEN_PAT) :
                          StartsAt(s, k + 1, CONTEXT_TOKEN_PAT[a])}), LAMBDA a :
              [ok |-> TRUE, from |-> i, to |-> k + 1 + Len(CONTEXT_TOKEN_PAT[a]),
               text |-> SubSeq(s, i, k + Len(CONTEXT_TOKEN_PAT[a]))])))

\* the pattern named pat at position i
MatchAt(pat, s, i) ==
  CASE pat = "hour_break" ->
         Bind(HourBreakAt(s, i, 2), LAMBDA a : IF a.ok THEN a ELSE HourBreakAt(s, i, 1))
    [] pat = "tilde_break" -> TildeBreakAt(s, i)
    [] pat = "time" -> TIME_RE(s, i)
    [] pat = "tag" -> TagAt(s, i)
    [] pat = "context_token" -> ContextTokenAt(s, i)

\* re.finditer(pat, s) from position i: the matches left to right, none
\* overlapping an earlier one
RECURSIVE finditer(_, _, _)
finditer(pat, s, i) ==
  Bind({j \in i..Len(s) : MatchAt(pat, s, j).ok}, LAMBDA hits :
    IF hits = {} THEN <<>>
    ELSE Bind(MatchAt(pat, s, MinOf(hits)), LAMBDA m : <<m>> \o finditer(pat, s, m.to)))

\* re.sub(pat, repl, s), ms the matches of pat in s and repl[k] the text that
\* replaces match k
re_sub(s, ms, repl) ==
  Flatten([k \in 1..Len(ms) |->
             SubSeq(s, IF k = 1 THEN 1 ELSE ms[k - 1].to, ms[k].from - 1) \o repl[k]])
    \o SubSeq(s, IF ms = <<>> THEN 1 ELSE ms[Len(ms)].to, Len(s))

_normalize_time_breaks(text) ==
  Bind(finditer("hour_break", text, 1), LAMBDA m1 :
  Bind(re_sub(text, m1, [k \in 1..Len(m1) |-> m1[k].text]), LAMBDA t :
  Bind(finditer("tilde_break", t, 1), LAMBDA m2 :
    re_sub(t, m2, [k \in 1..Len(m2) |-> m2[k].text]))))

\* a token of s.split() holds no blank, so fix_token returns it as it is
_collapse_korean_gaps(s) == JoinWith(str_split(s), Sp)

\* re.sub(r'\s+', ' ', s)
RECURSIVE CollapseSpace(_, _)
CollapseSpace(s, i) ==
  IF i > Len(s) THEN <<>>
  ELSE IF IsSpace(s[i]) THEN Sp \o CollapseSpace(s, SkipSpaces(s, i))
  ELSE <<s[i]>> \o CollapseSpace(s, i + 1)

\* re.split on a route separator with the blanks around it
RECURSIVE SplitOn(_, _)
SplitOn(s, seps) ==
  Bind({i \in 1..Len(s) : s[i] \in seps}, LAMBDA ps :
    IF ps = {} THEN <<s>>
    ELSE <<SubSeq(s, 1, MinOf(ps) - 1)>> \o SplitOn(SubSeq(s, MinOf(ps) + 1, Len(s)), seps))

_extract_place_nodes(place_text) ==
  Bind(finditer("tag", place_text, 1), LAMBDA ms :
  Bind(Strip(CollapseSpace(re_sub(place_text, ms, [k \in 1..Len(ms) |-> Sp]), 1)),
       LAMBDA clean :
  Bind(SplitOn(clean, {"arrow", "~"}), LAMBDA parts :
    SelectSeq([k \in 1..Len(parts) |-> Strip(parts[k])], NonEmpty))))

\* the end of the groups (?:,\d{3})* that start at j
RECURSIVE CommaGroupsEnd(_, _)
CommaGroupsEnd(s, j) ==
  IF j <= Len(s) /\ s[j] = "," /\ \A d \in 1..3 : IsDigitAt(s, j + d)
  THEN CommaGroupsEnd(s, j + 4) ELSE j

\* (\d{n}(?:,\d{3})*)\s*myeong at position i; text is group 1
HeadAt(s, i, n) ==
  IF ~(\A d \in 0..(n - 1) : IsDigitAt(s, i + d)) THEN NoSpan
  ELSE Bind(CommaGroupsEnd(s, i + n), LAMBDA j :
       Bind(SkipSpaces(s, j), LAMBDA k :
         IF k <= Len(s) /\ s[k] = "myeong"
         THEN [ok |-> TRUE, from |-> i, to |-> k + 1, text |-> SubSeq(s, i, j - 1)]
         ELSE NoSpan))

\* the digit counts \d{1,3} tries, the greedy one first
HeadDigits == <<3, 2, 1>>

\* the second pattern of _extract_headcount from position i.  Its ",\\d{3}"
\* and "\\d{3,}" ask for a backslash, which no text of the model holds, so a
\* match is up to three digits; the first match worth 100 or more is taken.
RECURSIVE HeadFallback(_, _)
HeadFallback(s, i) ==
  Bind({j \in i..Len(s) : s[j] \in Digits}, LAMBDA ds :
    IF ds = {} THEN NoSpan
    ELSE Bind(MinOf(ds), LAMBDA j :
         Bind(HeadDigits[MinOf({a \in 1..Len(HeadDigits) :
                \A d \in 0..(HeadDigits[a] - 1) : IsDigitAt(s, j + d)})], LAMBDA n :
           IF n = 3 /\ s[j] # "0"
           THEN [ok |-> TRUE, from |-> j, to |-> j + 3, text |-> SubSeq(s, j, j + 2)]
           ELSE HeadFallback(s, j + n))))

_extract_headcount(block) ==
  Bind({<<i, a>> \in (1..Len(block)) \X (1..Len(HeadDigits)) :
          HeadAt(block, i, HeadDigits[a]).ok}, LAMBDA hits :
    IF hits # {}
    THEN Bind(CHOOSE h \in hits : \A g \in hits :
                 h[1] < g[1] \/ (h[1] = g[1] /\ h[2] <= g[2]), LAMBDA h :
           HeadAt(block, h[1], HeadDigits[h[2]]))
    ELSE HeadFallback(block, 1))

\* the locals of parse_pdf for one match m of TIME_RE, chunk being the text up
\* to the next match (lines 283-308)
pdf_row(m, chunk) ==
  Bind(_extract_headcount(chunk), LAMBDA head :
  Bind(Strip(IF head.ok THEN SubSeq(chunk, 1, head.from - 1) ELSE chunk), LAMBDA place_block :
  Bind(IF head.ok THEN Strip(SubSeq(chunk, head.to, Len(chunk))) ELSE <<>>, LAMBDA after :
  Bind(finditer("tag", place_block, 1), LAMBDA tags :
  Bind(Strip(JoinWith([k \in 1..Len(tags) |-> tags[k].text], Sp)), LAMBDA aux :
  Bind(JoinWith(SelectSeq(<<after, aux>>, NonEmpty), Sp), LAMBDA remark_raw :
    [start_time |-> m.text[1], end_time |-> m.text[2],
     nodes |-> _extract_place_nodes(place_block),
     head |-> IF head.ok THEN SelectSeq(head.text, LAMBDA c : c # ",") ELSE <<>>,
     remark |-> Strip(_collapse_korean_gaps(CollapseSpace(remark_raw, 1)))]))))))

\* parse_pdf up to line 308: one row of locals per match of TIME_RE
pdf_rows(raw) ==
  Bind(_normalize_time_breaks(raw), LAMBDA text :
  Bind(finditer("time", text, 1), LAMBDA ms :
    [k \in 1..Len(ms) |->
       pdf_row(ms[k], Strip(SubSeq(text, ms[k].to,
                                   IF k < Len(ms) THEN ms[k + 1].from - 1 ELSE Len(text))))]))

\* parse_pdf lines 310-330: the record of a row; lat and lon hold the lists
\* that the columns' JSON texts denote, "[]" at this point
parse_pdf(rs) ==
  [k \in 1..Len(rs) |->
     [start_time |-> rs[k].start_time, end_time |-> rs[k].end_time,
      place |-> IF Len(rs[k].nodes) = 0 THEN <<>>
                ELSE IF Len(rs[k].nodes) = 1 THEN rs[k].nodes[1]
                ELSE json_dumps(rs[k].nodes),
      head |-> rs[k].head, lat |-> <<>>, lon |-> <<>>, remark |-> rs[k].remark]]

(***************************************************************************)
(* integrated_crawler.py: the place column read back, the Jongno filter    *)
(***************************************************************************)
\* json.loads of a text that starts with "[": the strings of a list in the
\* form json.dumps writes, from the quote at position i on.  ok says whether
\* the text is JSON; a text of the model that starts with "[" is one that
\* json_dumps wrote or no JSON at all.
RECURSIVE JsonStrings(_, _)
JsonStrings(t, i) ==
  IF ~(i <= Len(t) /\ t[i] = "\"") THEN [ok |-> FALSE, list |-> <<>>]
  ELSE Bind({j \in (i + 1)..Len(t) : t[j] = "\""}, LAMBDA qs :
       IF qs = {} THEN [ok |-> FALSE, list |-> <<>>]
       ELSE Bind(MinOf(qs), LAMBDA j :
            IF j + 1 = Len(t) /\ t[j + 1] = "]"
            THEN [ok |-> TRUE, list |-> <<SubSeq(t, i + 1, j - 1)>>]
            ELSE IF StartsAt(t, j + 1, <<",", " ">>)
            THEN Bind(JsonStrings(t, j + 3), LAMBDA r :
                   [ok |-> r.ok,
                    list |-> IF r.ok THEN <<SubSeq(t, i + 1, j - 1)>> \o r.list ELSE <<>>])
            ELSE [ok |-> FALSE, list |-> <<>>]))

json_loads(t) == IF t = <<"[", "]">> THEN [ok |-> TRUE, list |-> <<>>] ELSE JsonStrings(t, 2)

\* the nodes of a place column (geocode_rows_inplace lines 607-614,
\* row_matches_jongno lines 394-401): a JSONDecodeError leaves no node
place_nodes(place_col) ==
  Bind(Strip(place_col), LAMBDA t :
    IF t # <<>> /\ t[1] = "["
    THEN Bind(json_loads(place_col), LAMBDA r : IF r.ok THEN r.list ELSE <<>>)
    ELSE IF t # <<>> THEN <<place_col>> ELSE <<>>)

ic_GU_PATTERN == <<W_jongnogu, W_gwangjingu, W_seodaemungu, W_gurogu>>

ic_POLICE_TO_GU ==
  << [k |-> <<"jong", "ro", "seo">>, gu |-> W_jongnogu],
     [k |-> <<"seo", "dae", "mun", "seo">>, gu |-> W_seodaemungu],
     [k |-> <<"gu", "ro", "seo">>, gu |-> W_gurogu],
     [k |-> <<"gwang", "jin", "seo">>, gu |-> W_gwangjingu] >>

extract_gu_from_remark(remark) ==
  IF remark = <<>> THEN None
  ELSE Bind({<<i, k>> \in (1..Len(remark)) \X (1..Len(ic_GU_PATTERN)) :
               StartsAt(remark, i, ic_GU_PATTERN[k])}, LAMBDA hits :
    IF hits # {}
    THEN ic_GU_PATTERN[(CHOOSE h \in hits : \A g \in hits :
                          h[1] < g[1] \/ (h[1] = g[1] /\ h[2] <= g[2]))[2]]
    ELSE Bind({k \in 1..Len(ic_POLICE_TO_GU) : Contains(remark, ic_POLICE_TO_GU[k].k)},
              LAMBDA ks :
           IF ks = {} THEN None ELSE ic_POLICE_TO_GU[MinOf(ks)].gu))

ic_JONGNO_KEYWORDS == {W_jongno, W_jongnogu, W_gwanghwamun, W_gwanghwamun_gwangjang}

text_has_any(text, keywords) ==
  Bind(RemoveSpaces(text), LAMBDA t : \E k \in keywords : Contains(t, k))

row_matches_jongno(r) ==
  \/ extract_gu_from_remark(r.remark) = W_jongnogu
  \/ text_has_any(r.remark, ic_JONGNO_KEYWORDS)
  \/ text_has_any(IF Strip(r.place) # <<>> /\ Strip(r.place)[1] = "["
                  THEN JoinWith(place_nodes(r.place), Sp) ELSE r.place,
                  ic_JONGNO_KEYWORDS)

filter_rows_jongno(rs) == SelectSeq(rs, row_matches_jongno)

(***************************************************************************)
(* integrated_crawler.py: query candidates                                 *)
(***************************************************************************)
extract_context_tokens(remark) ==
  IF remark = <<>> THEN <<>>
  ELSE Bind(finditer("context_token", remark, 1), LAMBDA ms :
       Bind(SelectSeq([k \in 1..Len(ms) |-> ms[k].text], LAMBDA t : Len(t) <= 12),
            LAMBDA toks :
         unique_preserve_order(
           SelectSeq([k \in 1..Len(toks) |-> RemoveSpaces(toks[k])], NonEmpty))))

\* _insert_space_between_kor_engnum: a blank between a syllable of Hangul and
\* a letter or digit, then between a letter or digit and a syllable
_insert_space_between_kor_engnum(s) ==
  Bind(Flatten([i \in 1..Len(s) |->
         IF i < Len(s) /\ s[i] \in Hangul /\ s[i + 1] \in Latin \cup Digits
         THEN <<s[i], " ">> ELSE <<s[i]>>]), LAMBDA t :
    Flatten([i \in 1..Len(t) |->
         IF i < Len(t) /\ t[i] \in Latin \cup Digits /\ t[i + 1] \in Hangul
         THEN <<t[i], " ">> ELSE <<t[i]>>]))

\* the full-width digits and the exit glyphs and words that the other steps
\* rewrite are symbols that no text of the model holds
ic_normalize_tokens_basic(place) == CollapseRuns(_insert_space_between_kor_engnum(place))

\* the station, police-box and Samgakji extensions each need a symbol that no
\* text of the model holds, so cand is the base alone
ic_build_query_candidates(place, remark) ==
  Bind(ic_normalize_tokens_basic(place), LAMBDA base :
  Bind(SelectSeq(<<Strip(base)>>, NonEmpty), LAMBDA cand :
  Bind(extract_gu_from_remark(remark), LAMBDA gu :
  Bind((IF gu # None THEN <<W_seoul \o Sp \o gu>> ELSE <<>>) \o <<W_seoul>>, LAMBDA prefixes :
  Bind(extract_context_tokens(remark), LAMBDA ctx_toks :
  Bind(Flatten([i \in 1..Len(cand) |-> <<cand[i]>> \o Combine(prefixes, <<cand[i]>>)])
         \o Flatten([i \in 1..Len(ctx_toks) |->
              <<ctx_toks[i], ctx_toks[i] \o Sp \o base, base \o Sp \o ctx_toks[i]>>
                \o Flatten([j \in 1..Len(prefixes) |->
                     <<prefixes[j] \o Sp \o ctx_toks[i],
                       prefixes[j] \o Sp \o ctx_toks[i] \o Sp \o base,
                       prefixes[j] \o Sp \o base \o Sp \o ctx_toks[i]>>])]),
       LAMBDA expanded :
    unique_preserve_order(
      SelectSeq([i \in 1..Len(expanded) |-> CollapseRuns(expanded[i])], NonEmpty))))))))

\* re.sub(r"[(].*?[)]", "", base): every "(" up to the next ")" goes
RECURSIVE StripParens(_)
StripParens(s) ==
  Bind({i \in 1..Len(s) : s[i] = "(" /\ \E j \in (i + 1)..Len(s) : s[j] = ")"}, LAMBDA os :
    IF os = {} THEN s
    ELSE Bind(MinOf(os), LAMBDA i :
         Bind(MinOf({j \in (i + 1)..Len(s) : s[j] = ")"}), LAMBDA j :
           SubSeq(s, 1, i - 1) \o StripParens(SubSeq(s, j + 1, Len(s))))))

\* geocode_rows_inplace lines 620-622
node_candidates(p, remark) ==
  Bind(Strip(StripParens(p)), LAMBDA cleaned :
    ic_build_query_candidates(IF cleaned # <<>> THEN cleaned ELSE p, remark))

(***************************************************************************)
(* integrated_crawler.py: the geocoder                                     *)
(***************************************************************************)
SEOUL_BBOX == <<37413, 37715, 126734, 127269>>

in_seoul_bbox(lat, lon) ==
  SEOUL_BBOX[1] <= lat /\ lat <= SEOUL_BBOX[2] /\ SEOUL_BBOX[3] <= lon /\ lon <= SEOUL_BBOX[4]

\* the number of items a place search asks for (size)
ic_PageSize == 7

\* the score of an item with a coordinate (lines 536-544)
ic_score(it, query, context_gu) ==
    (IF Contains(it.address, W_seoul) THEN 10 ELSE 0)
  + (IF context_gu # None /\ Contains(it.address, context_gu) THEN 4 ELSE 0)
  + (IF RemoveSpaces(query) # <<>> /\ Contains(RemoveSpaces(it.title), RemoveSpaces(query))
     THEN 2 ELSE 0)
  + (IF in_seoul_bbox(it.point.y, it.point.x) THEN 5 ELSE 0)

\* _vworld_search_place on the response resp: [raised, hit].  Only
\* requests.RequestException is caught; a body of another shape raises where
\* its fields are read.
_vworld_search_place(resp, query, context_gu, restrict_seoul) ==
  IF resp.kind = "shape" THEN [raised |-> TRUE, hit |-> None]
  ELSE IF resp.kind # "ok" THEN [raised |-> FALSE, hit |-> None]
  ELSE Bind({i \in 1..Len(resp.items) :
               /\ HasXY(resp.items[i].it)
               /\ ~(/\ restrict_seoul
                    /\ ~Contains(resp.items[i].it.address, W_seoul)
                    /\ ~in_seoul_bbox(resp.items[i].it.point.y, resp.items[i].it.point.x))},
            LAMBDA ok :
       IF ok = {} THEN [raised |-> FALSE, hit |-> None]
       ELSE Bind([i \in ok |-> ic_score(resp.items[i].it, query, context_gu)], LAMBDA sc :
              [raised |-> FALSE,
               hit |-> LatLon(resp.items[MinOf({i \in ok : \A j \in ok : sc[j] <= sc[i]})]
                                .it.point)]))

\* _vworld_address_coord on the response resp: every exception is caught
_vworld_address_coord(resp) ==
  IF resp.kind = "ok" /\ resp.point # None /\ in_seoul_bbox(resp.point.y, resp.point.x)
  THEN LatLon(resp.point) ELSE None

\* HitAccepted without the check of the box
HitAccepted_anywhere(hit, restrict_seoul) == hit # None

\* line 634: a hit the loop over the candidates stops at
HitAccepted(hit, restrict_seoul) ==
  hit # None /\ (~restrict_seoul \/ in_seoul_bbox(hit[1], hit[2]))

\* the loop over the candidates (lines 625-638) from candidate i on while the
\* cache answers: the candidate that needs a request (call, 0 if none) or the
\* hit the loop ends with
RECURSIVE ScanCandidates(_, _, _, _)
ScanCandidates(cands, i, c, restrict_seoul) ==
  IF i > Len(cands) THEN [call |-> 0, hit |-> None]
  ELSE IF cands[i] \in DOMAIN c
  THEN IF HitAccepted(c[cands[i]], restrict_seoul) THEN [call |-> 0, hit |-> c[cands[i]]]
       ELSE ScanCandidates(cands, i + 1, c, restrict_seoul)
  ELSE [call |-> i, hit |-> None]

(***************************************************************************)
(* crawler.py: records_to_csv_rows.  A record of the table is              *)
(* [start_time, end_time, place, head, lat, lon, remark]; place is the     *)
(* JSON text of the places, head the empty headcount column, lat and lon   *)
(* the lists that json.dumps writes.                                       *)
(***************************************************************************)
records_to_csv_rows(gs) ==
  [k \in 1..Len(gs) |->
     [start_time |-> gs[k].start_time, end_time |-> gs[k].end_time,
      place |-> json_dumps(gs[k].places), head |-> <<>>,
      lat |-> gs[k].lats, lon |-> gs[k].lons,
      remark |-> remark_context(gs[k])]]

(***************************************************************************)
(* Inputs of the runs of crawler.py: the rows of the notice as crawl()     *)
(* returns them, the --bbox and --bbox-mode options, the hash seed, and    *)
(* what became of the source: "ok", "http_error" (fetch_html raises a      *)
(* RequestException, which crawl() answers with no rows, lines 367-371),   *)
(* "no_post" (the list holds no post to choose, lines 960-963)             *)
(***************************************************************************)
MaxGeoRows == 2

GeoRowSet ==
  { Row(T_0900_1030, W_gwanghwamun_gwangjang, <<>>),
    Row(T_0900_1030, W_gwanghwamun \o Sp \o W_ap, W_sejongdaero),
    Row(T_0900_open, W_gwanghwamun, <<>>),
    Row(T_0830_0900, W_gwanghwamun, <<>>) }

CrawlerConfigs ==
  {[prog |-> "crawler", bbox |-> b, bbox_mode |-> m, restrict_seoul |-> TRUE, pdf |-> <<>>,
    source |-> s] :
     b \in DOMAIN BBOXES, m \in {"boost", "strict"}, s \in {"ok", "http_error", "no_post"}}

\* last before any request.  coord_seen: the response held a coordinate; hit:
\* the coordinate the geocoder took from the response, None if it took none;
\* empty: the request succeeded and the response held no result; slept: the
\* geocoder has called time.sleep since the request
NoCall == [g |-> 0, p |-> 0, api |-> "none", phase |-> "none", q |-> None, page |-> 0,
           more |-> FALSE, coord_seen |-> FALSE, hit |-> None,
           empty |-> FALSE, slept |-> FALSE]

NoPlace == [g |-> 1, p |-> 1, lats |-> <<>>, lons |-> <<>>,
            queries |-> <<>>, core_kw |-> None, ctx_terms |-> <<>>, gu_hint |-> None]

InitCrawler ==
  /\ cfg \in CrawlerConfigs
  /\ hash_desc \in BOOLEAN
  /\ rows \in (IF cfg.source = "ok" THEN SeqsUpTo(GeoRowSet, MaxGeoRows) ELSE {<<>>})
  /\ grouped = <<>> /\ regrouped = <<>>
  /\ pc = "start"
  /\ cache = <<>> /\ geo = NoPlace /\ fr = None
  /\ issued = {} /\ last = NoCall /\ written = <<>>

(***************************************************************************)
(* crawler.py: main, from the rows to the CSV file                         *)
(***************************************************************************)
\* main lines 976-987: filter, group, enter geocode_grouped_inplace (the key
\* is never empty: line 932 falls back on the built-in key)
CrawlerMain ==
  /\ pc = "start" /\ cfg.prog = "crawler" /\ cfg.source # "no_post"
  /\ \E evs \in {group_rows_by_time(filter_for_jongno(rows))} :
       grouped' = [k \in 1..Len(evs) |->
                     [start_time |-> evs[k].start_time, end_time |-> evs[k].end_time,
                      places |-> evs[k].places, remarks |-> evs[k].remarks,
                      lats |-> <<>>, lons |-> <<>>]]
  /\ pc' = "c_place"
  /\ UNCHANGED <<rows, regrouped, cfg, hash_desc, cache, geo, fr, issued, last, written>>

\* main lines 960-963: no post to choose, the message and the return
CrawlerNoPost ==
  /\ pc = "start" /\ cfg.prog = "crawler" /\ cfg.source = "no_post"
  /\ pc' = "fatal"
  /\ UNCHANGED <<rows, grouped, regrouped, cfg, hash_desc, cache, geo, fr, issued, last, written>>

\* the end of geocode_vworld_candidates for the place at hand with result hit
\* (None or (lat, lon)), and lines 863-874, time.sleep of line 869 among them
FinishPlace(hit) ==
  /\ cache' = CachePut(cache, Range(Prefix(geo.queries, CacheStore)), hit)
  /\ geo' = AppendHit([geo EXCEPT !.queries = <<>>, !.core_kw = None,
                                  !.ctx_terms = <<>>, !.gu_hint = None], hit)
  /\ fr' = None
  /\ pc' = "c_place"

\* go on with the request at position next, or end without result
Continue(next) ==
  IF next = None THEN FinishPlace(None)
  ELSE fr' = next /\ UNCHANGED <<cache, geo, pc>>

\* geocode_grouped_inplace between two places: lines 832-862 and 875
CrawlerNextPlace ==
  /\ pc = "c_place"
  /\ IF geo.g > Len(grouped)
     THEN pc' = "c_save" /\ UNCHANGED <<grouped, cache, geo, fr>>
     ELSE IF geo.p > Len(grouped[geo.g].places)
     THEN /\ grouped' = [grouped EXCEPT ![geo.g].lats = geo.lats, ![geo.g].lons = geo.lons]
          /\ geo' = [NoPlace EXCEPT !.g = geo.g + 1]
          /\ UNCHANGED <<cache, fr, pc>>
     ELSE \E b \in {build_query_candidates(grouped[geo.g].places[geo.p],
                                           remark_context(grouped[geo.g]))} :
          \E hit \in {CacheLookup(b.queries, cache)} :
          \E g1 \in {[geo EXCEPT !.queries = b.queries, !.core_kw = b.core,
                                 !.ctx_terms = b.ctx_terms,
                                 !.gu_hint = event_gu_hint(grouped[geo.g])]} :
            /\ UNCHANGED grouped
            /\ IF hit # None
               THEN geo' = AppendHit(geo, hit) /\ UNCHANGED <<cache, fr, pc>>
               ELSE IF EnterPlace(g1) = None
               THEN /\ cache' = CachePut(cache, Range(Prefix(g1.queries, CacheStore)), None)
                    /\ geo' = AppendHit(geo, None)
                    /\ UNCHANGED <<fr, pc>>
               ELSE geo' = g1 /\ fr' = EnterPlace(g1) /\ pc' = "c_call" /\ UNCHANGED cache
  /\ UNCHANGED <<rows, regrouped, cfg, hash_desc, issued, last, written>>

\* one request of _vworld_search_place (lines 634-648) in the place pass or the
\* context-only pass, and what geocode_vworld_candidates does with its outcome
\* (lines 766-780, 805-820): a failure of the request leaves no items.  The
\* delay of line 869 is waited once geocode_vworld_candidates has returned.
CrawlerSearchPlace ==
  /\ pc = "c_call" /\ fr.phase \in {"place", "ctx"}
  /\ \E q \in {CallQuery(geo, fr)} :
     \E resp \in PlaceResponses :
     \E more \in {resp.kind = "ok" /\ ItemCount(resp.items) >= PageSize /\ fr.page < PageCount} :
     \E items \in {IF resp.kind # "ok" THEN <<>> ELSE fr.items_all \o resp.items} :
     \E best \in {IF more THEN None
                  ELSE _choose_best_item(items, geo.gu_hint, geo.core_kw, geo.ctx_terms,
                                         BBOXES[cfg.bbox], cfg.bbox_mode)} :
       /\ issued' = issued \cup {<<"place", q>>}
       /\ IF more
          THEN /\ fr' = [fr EXCEPT !.page = @ + 1, !.items_all = items]
               /\ UNCHANGED <<cache, geo, pc>>
          ELSE IF PlaceReturns(best, BBOXES[cfg.bbox])
          THEN FinishPlace(LatLon(best.point))
          ELSE Continue(NextCall(geo, fr))
       /\ last' = [g |-> geo.g, p |-> geo.p, api |-> "place", phase |-> fr.phase,
                   q |-> q, page |-> fr.page, more |-> more,
                   coord_seen |-> \E i \in 1..Len(items) : HasXY(items[i].it),
                   hit |-> IF best # None /\ HasXY(best) THEN LatLon(best.point) ELSE None,
                   empty |-> resp.kind = "ok" /\ resp.items = <<>>,
                   slept |-> pc' = "c_place"]
  /\ UNCHANGED <<rows, grouped, regrouped, cfg, hash_desc, written>>

\* one request of _vworld_address_coord (lines 653-673) in the address
\* fallback (lines 790-800); nothing catches a failure of the request, which
\* ends geocode_grouped_inplace and main
CrawlerAddress ==
  /\ pc = "c_call" /\ fr.phase = "addr"
  /\ \E q \in {CallQuery(geo, fr)} :
     \E resp \in AddrResponses :
       /\ issued' = issued \cup {<<fr.addr_type, q>>}
       /\ IF resp.kind # "ok"
          THEN pc' = "crashed" /\ fr' = None /\ UNCHANGED <<cache, geo>>
          ELSE IF resp.point # None
                  /\ AddrReturns(resp.point, BBOXES[cfg.bbox], cfg.bbox_mode)
          THEN FinishPlace(LatLon(resp.point))
          ELSE Continue(NextCall(geo, fr))
       /\ last' = [g |-> geo.g, p |-> geo.p, api |-> fr.addr_type, phase |-> fr.phase,
                   q |-> q, page |-> 1, more |-> FALSE,
                   coord_seen |-> resp.point # None,
                   hit |-> IF resp.point # None THEN LatLon(resp.point) ELSE None,
                   empty |-> resp.kind = "ok" /\ resp.point = None,
                   slept |-> pc' = "c_place"]
  /\ UNCHANGED <<rows, grouped, regrouped, cfg, hash_desc, written>>

\* main lines 993-1000
CrawlerSave ==
  /\ pc = "c_save"
  /\ written' = <<records_to_csv_rows(grouped)>>
  /\ pc' = "written"
  /\ UNCHANGED <<rows, grouped, regrouped, cfg, hash_desc, cache, geo, fr, issued, last>>


(***************************************************************************)
(* Inputs of the runs of integrated_crawler.py: the text of the PDF, made  *)
(* of blocks, the --no-seoul-filter option, and what became of the source: *)
(* "ok", "missing_pdf" (no file at the --pdf path, lines 677-678),         *)
(* "download_error" (download_today_pdf_with_title raises, line 680)       *)
(***************************************************************************)
MaxBlocks == 2

\* a rally with a headcount and the police station in charge
B_plaza ==
  T_0900_1030 \o Sp \o W_gwanghwamun_gwangjang \o <<" ", "3", "0", "0", "myeong", " ">>
              \o <<"jong", "ro", "seo", "\n">>

\* a march at the same time, from one place to another
B_march ==
  T_0900_1030 \o Sp \o W_gwanghwamun \o Sp \o W_ap \o <<"arrow">> \o W_sejongdaero \o <<"\n">>

\* a time broken over lines, a place in brackets, a note in angle brackets
B_bracket ==
  <<"1", "8", "\n", ":", "0", "0", "\n", "~", "\n", "1", "9", ":", "0", "0", " ", "[">>
    \o W_gwanghwamun \o <<"]", " ", "<">> \o W_jongno \o <<">", "\n">>

\* a time range with nothing after it
B_bare == T_0900_1030 \o <<"\n">>

PdfBlocks == {B_plaza, B_march, B_bracket, B_bare}

PdfTexts == {Flatten(l) : l \in SeqsUpTo(PdfBlocks, MaxBlocks)}

IntegratedConfigs ==
  {[prog |-> "integrated", bbox |-> "none", bbox_mode |-> "none",
    restrict_seoul |-> r, pdf |-> x, source |-> "ok"] : r \in BOOLEAN, x \in PdfTexts}
  \cup
  {[prog |-> "integrated", bbox |-> "none", bbox_mode |-> "none",
    restrict_seoul |-> r, pdf |-> <<>>, source |-> s] :
     r \in BOOLEAN, s \in {"missing_pdf", "download_error"}}

InitIntegrated ==
  /\ cfg \in IntegratedConfigs
  /\ hash_desc = FALSE
  /\ rows = <<>> /\ grouped = <<>> /\ regrouped = <<>>
  /\ pc = "start"
  /\ cache = <<>> /\ geo = NoPlace /\ fr = None
  /\ issued = {} /\ last = NoCall /\ written = <<>>

(***************************************************************************)
(* integrated_crawler.py: main, from the PDF to the two CSV files          *)
(***************************************************************************)
\* main line 689 and the entry of geocode_rows_inplace (the key is never
\* empty: it defaults to the built-in key)
IntegratedMain ==
  /\ pc = "start" /\ cfg.prog = "integrated" /\ cfg.source = "ok"
  /\ \E rs \in {pdf_rows(cfg.pdf)} : rows' = rs /\ grouped' = parse_pdf(rs)
  /\ pc' = "i_place"
  /\ UNCHANGED <<regrouped, cfg, hash_desc, cache, geo, fr, issued, last, written>>

\* main lines 675-680: SystemExit with its message when the --pdf file does
\* not exist; nothing catches what download_today_pdf_with_title raises
IntegratedNoSource ==
  /\ pc = "start" /\ cfg.prog = "integrated" /\ cfg.source # "ok"
  /\ pc' = IF cfg.source = "missing_pdf" THEN "fatal" ELSE "raised"
  /\ UNCHANGED <<rows, grouped, regrouped, cfg, hash_desc, cache, geo, fr, issued, last, written>>

\* lines 640-644: the loop over the candidates of the node at hand has ended
\* with hit
FinishNode(hit) ==
  /\ geo' = AppendHit([geo EXCEPT !.queries = <<>>, !.gu_hint = None], hit)
  /\ fr' = None
  /\ pc' = "i_place"

\* lines 630-638: geocode_vworld has returned hit for the candidate q; the
\* result is cached and time.sleep is called (line 631)
CandidateDone(q, hit) ==
  \E c1 \in {CachePut(cache, {q}, hit)} :
    /\ cache' = c1
    /\ IF HitAccepted(hit, cfg.restrict_seoul) THEN FinishNode(hit)
       ELSE \E r \in {ScanCandidates(geo.queries, fr.i + 1, c1, cfg.restrict_seoul)} :
              IF r.call = 0 THEN FinishNode(r.hit)
              ELSE fr' = PlaceCall(r.call) /\ UNCHANGED <<geo, pc>>

\* IntegratedNextPlace with the remark of the finished row cleared
IntegratedNextPlace_clears ==
  /\ pc = "i_place"
  /\ IF geo.g > Len(grouped)
     THEN pc' = "i_save" /\ UNCHANGED <<grouped, geo, fr>>
     ELSE \E nodes \in {place_nodes(grouped[geo.g].place)} :
          IF geo.p > Len(nodes)
          THEN /\ grouped' = [grouped EXCEPT ![geo.g].lat = geo.lats, ![geo.g].lon = geo.lons,
                                          ![geo.g].remark = <<>>]
               /\ geo' = [NoPlace EXCEPT !.g = geo.g + 1]
               /\ UNCHANGED <<fr, pc>>
          ELSE \E cands \in {node_candidates(nodes[geo.p], grouped[geo.g].remark)} :
               \E r \in {ScanCandidates(cands, 1, cache, cfg.restrict_seoul)} :
                 /\ UNCHANGED grouped
                 /\ IF r.call = 0
                    THEN geo' = AppendHit(geo, r.hit) /\ UNCHANGED <<fr, pc>>
                    ELSE /\ geo' = [geo EXCEPT
                                      !.queries = cands,
                                      !.gu_hint = extract_gu_from_remark(grouped[geo.g].remark)]
                         /\ fr' = PlaceCall(r.call)
                         /\ pc' = "i_call"
  /\ UNCHANGED <<rows, regrouped, cfg, hash_desc, cache, issued, last, written>>

\* geocode_rows_inplace between two nodes: lines 602-628 and 646-647
IntegratedNextPlace ==
  /\ pc = "i_place"
  /\ IF geo.g > Len(grouped)
     THEN pc' = "i_save" /\ UNCHANGED <<grouped, geo, fr>>
     ELSE \E nodes \in {place_nodes(grouped[geo.g].place)} :
          IF geo.p > Len(nodes)
          THEN /\ grouped' = [grouped EXCEPT ![geo.g].lat = geo.lats, ![geo.g].lon = geo.lons]
               /\ geo' = [NoPlace EXCEPT !.g = geo.g + 1]
               /\ UNCHANGED <<fr, pc>>
          ELSE \E cands \in {node_candidates(nodes[geo.p], grouped[geo.g].remark)} :
               \E r \in {ScanCandidates(cands, 1, cache, cfg.restrict_seoul)} :
                 /\ UNCHANGED grouped
                 /\ IF r.call = 0
                    THEN geo' = AppendHit(geo, r.hit) /\ UNCHANGED <<fr, pc>>
                    ELSE /\ geo' = [geo EXCEPT
                                      !.queries = cands,
                                      !.gu_hint = extract_gu_from_remark(grouped[geo.g].remark)]
                         /\ fr' = PlaceCall(r.call)
                         /\ pc' = "i_call"
  /\ UNCHANGED <<rows, regrouped, cfg, hash_desc, cache, issued, last, written>>

\* the request of _vworld_search_place (lines 501-556) for the candidate at
\* hand, and what geocode_vworld (lines 588-592) and the loop do with its
\* outcome; an exception it lets through ends geocode_rows_inplace in main's
\* except clause (lines 694-698)
IntegratedSearchPlace ==
  /\ pc = "i_call" /\ fr.phase = "place"
  /\ \E q \in {geo.queries[fr.i]} :
     \E resp \in {r \in PlaceResponses : ItemCount(r.items) <= ic_PageSize} :
     \E res \in {_vworld_search_place(resp, q, geo.gu_hint, cfg.restrict_seoul)} :
       /\ issued' = issued \cup {<<"place", q>>}
       /\ \E done \in {~res.raised /\ res.hit # None} :
            /\ IF res.raised
               THEN pc' = "i_except" /\ fr' = None /\ UNCHANGED <<cache, geo>>
               ELSE IF done THEN CandidateDone(q, res.hit)
               ELSE fr' = AddrCall(fr.i, "road") /\ UNCHANGED <<cache, geo, pc>>
            /\ last' = [g |-> geo.g, p |-> geo.p, api |-> "place", phase |-> "place",
                        q |-> q, page |-> 1, more |-> FALSE,
                        coord_seen |-> \E i \in 1..Len(resp.items) : HasXY(resp.items[i].it),
                        hit |-> res.hit,
                        empty |-> resp.kind = "ok" /\ resp.items = <<>>,
                        slept |-> done]
  /\ UNCHANGED <<rows, grouped, regrouped, cfg, hash_desc, written>>

\* one request of _vworld_address_coord (lines 558-580) for the candidate at
\* hand, by road address and then by parcel address (lines 591-595)
IntegratedAddress ==
  /\ pc = "i_call" /\ fr.phase = "addr"
  /\ \E q \in {geo.queries[fr.i]} :
     \E resp \in AddrResponses :
     \E hit \in {_vworld_address_coord(resp)} :
       /\ issued' = issued \cup {<<fr.addr_type, q>>}
       /\ \E done \in {hit # None \/ fr.addr_type = "parcel"} :
            /\ IF done THEN CandidateDone(q, hit)
               ELSE fr' = AddrCall(fr.i, "parcel") /\ UNCHANGED <<cache, geo, pc>>
            /\ last' = [g |-> geo.g, p |-> geo.p, api |-> fr.addr_type, phase |-> "addr",
                        q |-> q, page |-> 1, more |-> FALSE,
                        coord_seen |-> resp.point # None, hit |-> hit,
                        empty |-> resp.kind = "ok" /\ resp.point = None,
                        slept |-> done]
  /\ UNCHANGED <<rows, grouped, regrouped, cfg, hash_desc, written>>

\* main lines 717-719, after geocode_rows_inplace has returned or main has
\* caught its exception: the table of all rows and the table of the Jongno rows
IntegratedSave ==
  /\ pc \in {"i_save", "i_except"}
  /\ written' = <<grouped, filter_rows_jongno(grouped)>>
  /\ pc' = "written"
  /\ UNCHANGED <<rows, grouped, regrouped, cfg, hash_desc, cache, geo, fr, issued, last>>

(***************************************************************************)
(* The runs of the two programs                                            *)
(***************************************************************************)
InitRun == InitCrawler \/ InitIntegrated

NextRun ==
  \/ CrawlerMain \/ CrawlerNoPost \/ CrawlerNextPlace \/ CrawlerSearchPlace
  \/ CrawlerAddress \/ CrawlerSave
  \/ IntegratedMain \/ IntegratedNoSource \/ IntegratedNextPlace \/ IntegratedSearchPlace
  \/ IntegratedAddress \/ IntegratedSave

SpecRun == InitRun /\ [][NextRun]_vars

(***************************************************************************)
(* crawler.py: best_table_by_content and detect_columns.  A table is the   *)
(* sequence of its rows (tr), a row the sequence of the texts of its cells *)
(* (td, th); a document is the sequence of its tables.  Rows and columns   *)
(* are numbered from 0 as in the code, tables from 1, 0 standing for None. *)
(***************************************************************************)
\* trs[1: min(len(trs), 12)]
SampleEnd == 12

\* trs[hdr_rows: min(len(trs), hdr_rows + 15)]
ColumnSample == 15

\* len(t) >= 10
LongText == 10

\* a > b for tuples of two numbers
TupleGreater(a, b) == a[1] > b[1] \/ (a[1] = b[1] /\ a[2] > b[2])

HasTime(t) == TIME_PAT_CELL(t).ok

\* lines 246-254: (time_hits, long_hits) of a table with the rows trs
table_score(trs) ==
  Bind({i \in 2..Min(Len(trs), SampleEnd) : trs[i] # <<>>}, LAMBDA sample_rows :
    << Cardinality({i \in sample_rows :
                      \E c \in 1..Len(trs[i]) : HasTime(clean_text(trs[i][c]))}),
       Cardinality({i \in sample_rows :
                      \E c \in 1..Len(trs[i]) : Len(clean_text(trs[i][c])) >= LongText}) >>)

\* the loop of lines 243-256 over the tables from k on
RECURSIVE BestTableFrom(_, _, _, _)
BestTableFrom(tables, k, best, best_score) ==
  IF k > Len(tables) THEN best
  ELSE IF Len(tables[k]) < 2 THEN BestTableFrom(tables, k + 1, best, best_score)
  ELSE Bind(table_score(tables[k]), LAMBDA sc :
         IF TupleGreater(sc, best_score) THEN BestTableFrom(tables, k + 1, k, sc)
         ELSE BestTableFrom(tables, k + 1, best, best_score))

best_table_by_content(tables) == BestTableFrom(tables, 1, 0, <<-1, -1>>)

\* max(cands, key=lambda j: keys[j]) with the last of the greatest taken
ArgMax_last(keys, cands) ==
  CHOOSE j \in cands : \A k \in cands : keys[k] < keys[j] \/ (keys[k] = keys[j] /\ k <= j)

\* max(cands, key=lambda j: keys[j]): the first of the greatest
ArgMax(keys, cands) ==
  CHOOSE j \in cands : \A k \in cands : keys[k] < keys[j] \/ (keys[k] = keys[j] /\ j <= k)

\* the rows of the sample that have ncols cells (lines 270-273, 293-296)
SampleRows(trs, start, ncols) ==
  {i \in (start + 1)..Min(Len(trs), start + ColumnSample) : Len(trs[i]) = ncols}

\* sum(len(t) for t in col_texts[j]) over the rows from i on
RECURSIVE ColumnLength(_, _, _, _)
ColumnLength(trs, sample, j, i) ==
  IF i > Len(trs) THEN 0
  ELSE (IF i \in sample THEN Len(clean_text(trs[i][j])) ELSE 0)
         + ColumnLength(trs, sample, j, i + 1)

\* lines 274-278 and 297-301 for the data rows from row start on.  Every
\* column has the texts of the same rows, so the averages of line 275 compare
\* as the sums do.
columns_at(trs, start, ncols) ==
  Bind(SampleRows(trs, start, ncols), LAMBDA sample :
  Bind([j \in 1..ncols |-> Cardinality({i \in sample : HasTime(clean_text(trs[i][j]))})],
       LAMBDA time_counts :
  Bind([j \in 1..ncols |-> ColumnLength(trs, sample, j, 1)], LAMBDA len_sum :
  Bind(IF ncols > 0 THEN ArgMax(time_counts, 1..ncols) - 1 ELSE 1, LAMBDA col_time :
  Bind({j \in 1..ncols : j - 1 # col_time}, LAMBDA candidates :
    [col_time |-> col_time,
     col_place |-> IF candidates # {} THEN ArgMax(len_sum, candidates) - 1
                   ELSE IF col_time # 0 THEN 0 ELSE 1,
     start |-> start])))))

\* lines 261-308: the first of the rows 1 and 2 that exists and has cells is
\* taken for the first data row; else the last lines
detect_columns(trs) ==
  IF Len(trs) >= 2 /\ trs[2] # <<>> THEN columns_at(trs, 1, Len(trs[2]))
  ELSE IF Len(trs) >= 3 /\ trs[3] # <<>> THEN columns_at(trs, 2, Len(trs[3]))
  ELSE Bind(IF Len(trs) > 1 THEN 1 ELSE 0, LAMBDA data_start :
         IF Len(trs) <= data_start THEN [col_time |-> 1, col_place |-> 2, start |-> data_start]
         ELSE columns_at(trs, data_start, Len(trs[data_start + 1])))

(***************************************************************************)
(* Tables and documents of the model                                       *)
(***************************************************************************)
\* a text of twelve characters
W_long == W_gwanghwamun_gwangjang \o Sp \o W_sejongdaero \o Sp \o W_ap

R_head == <<<<"a">>, <<"b">>>>

\* a row with a time and a short text
R_time == <<T_0900_open, W_gwanghwamun>>

\* a row with a long text and no time
R_long == <<W_ap, W_long>>

\* a row with neither
R_plain == <<W_ap, W_gwanghwamun>>

\* n times the row r
Copies(r, n) == [i \in 1..n |-> r]

\* the header alone; one, eleven and twelve rows with a time; a time row
\* after eleven rows without; a long row; a time row and a long row
TableSet ==
  { <<R_head>> \o Copies(R_time, n) : n \in {0, 1, SampleEnd - 1, SampleEnd} } \cup
  { <<R_head>> \o Copies(R_plain, SampleEnd - 1) \o <<R_time>>,
    <<R_head>> \o <<R_long>>,
    <<R_head>> \o <<R_time, R_long>>,
    <<R_head>> \o <<R_plain>> }

MaxTables == 3

\* the texts of the cells of a data row
CellTexts == {T_0900_open, T_0900_1030, W_gwanghwamun, W_long}

\* data rows of two cells, and of three cells
DataRows ==
  [1..2 -> CellTexts] \cup [1..3 -> {T_0900_open, W_gwanghwamun, W_long}]

MaxDataRows == 2

\* a header and up to MaxDataRows data rows; a second row without cells; a
\* single row; seventeen data rows, the times of the last two in the other
\* column
ColumnTables ==
  { <<R_head>> \o l : l \in SeqsUpTo(DataRows, MaxDataRows) \ {<<>>} } \cup
  { <<R_head, <<>>, R_time>>,
    <<R_time>>,
    <<R_head>> \o Copies(<<W_gwanghwamun, T_0900_open>>, ColumnSample)
               \o Copies(<<T_0900_1030, W_ap>>, 2) }

(***************************************************************************)
(* main.py: the endpoint /upcoming-protests                                *)
(***************************************************************************)
\* the messages of the three early returns (lines 92, 103, 111)
NoDataText == <<"no_data">>

NoDateColumnsText == <<"no_date_columns">>

NothingUpcomingText == <<"nothing_upcoming">>

\* the chat response with one simpleText output
simpleText(text) ==
  [version |-> <<"2", ".", "0">>,
   template |-> [outputs |-> <<[simpleText |-> [text |-> text]]>>]]

\* days counted from today: today, tomorrow (line 86)
Today == 0

Tomorrow == Today + 1

\* lines 127-133: a place column that is a list is joined with " - "
locations_text(place) ==
  IF place # <<>> /\ place[1] = "["
  THEN Bind(json_loads(place), LAMBDA r :
         IF r.ok THEN JoinWith(r.list, <<" ", "-", " ">>) ELSE place)
  ELSE place

\* str(people) of a row of the frame df: read_csv gives the headcount column
\* the type float64 as soon as one row has none, and int64 otherwise
people_str(df, people) ==
  IF \E k \in 1..Len(df) : df[k].people = None THEN people \o <<".", "0">> ELSE people

\* lines 136-137
people_text(df, people) ==
  IF people # None THEN <<"people", " ">> \o people_str(df, people) \o <<"myeong">> ELSE <<>>

\* lines 121-140: the text of one row
row_text(df, row) ==
  <<"pin", " ">> \o locations_text(row.place) \o <<"\n", "clock", " ">>
    \o row.start_time \o <<"~">> \o row.end_time \o <<"\n">>
    \o people_text(df, row.people) \o <<"\n", "\n">>

\* lines 118-143: the groups in the order of their dates, each with its rows
\* in the order of the file and the separator line after them
RECURSIVE groups_text(_, _, _)
groups_text(df, rs, days) ==
  IF days = {} THEN <<>>
  ELSE Bind(MinOf(days), LAMBDA day :
       Bind(SelectSeq(rs, LAMBDA r : r.day = day), LAMBDA g :
         <<"date", " ", DigitChar(day), "\n", "\n">>
           \o Flatten([k \in 1..Len(g) |-> row_text(df, g[k])])
           \o <<"separator", "\n", "\n">>
           \o groups_text(df, rs, days \ {day})))

\* upcoming_protests on the newest CSV file csv (None if the data directory
\* has none): the value the coroutine returns, None where its body ends
\* without a return statement, and the local text at that point
upcoming_protests(csv) ==
  IF csv = None THEN [response |-> simpleText(NoDataText), text |-> <<>>]
  ELSE IF ~csv.dated THEN [response |-> simpleText(NoDateColumnsText), text |-> <<>>]
  ELSE Bind(SelectSeq(csv.rows, LAMBDA r : r.day \in {Today, Tomorrow}), LAMBDA df_filtered :
       IF df_filtered = <<>>
       THEN [response |-> simpleText(NothingUpcomingText), text |-> <<>>]
       ELSE [response |-> None,
             text |-> <<"header", DigitChar(Today), DigitChar(Tomorrow), "\n", "count", DigitChar(Len(df_filtered)), "\n", "\n">>
                        \o groups_text(csv.rows, df_filtered,
                                       {df_filtered[k].day : k \in 1..Len(df_filtered)})])

(***************************************************************************)
(* crawler.py: split_location_and_route and the row parse_table_rows makes *)
(* of a time cell and a place cell.  The line break of the model's texts   *)
(* is "\n"; of the route glyphs of line 323 they hold the arrow; of the    *)
(* labels of line 317 they spell the march label.                          *)
(***************************************************************************)
W_haengjin == <<"haeng", "jin">>

\* the lines of txt, stripped, the empty ones left out (line 313)
stripped_lines(txt) ==
  Bind(SplitOn(txt, {"\n"}), LAMBDA ls :
    SelectSeq([k \in 1..Len(ls) |-> Strip(ls[k])], NonEmpty))

\* line 317
is_route_line(ln) == ln[1] = "refmark" /\ Contains(ln, W_haengjin)

\* line 318: the label at the start of the line goes, if it has its colon
strip_route_label(ln) ==
  Bind(SkipSpaces(ln, 2), LAMBDA j :
    IF ~(ln[1] = "refmark" /\ StartsAt(ln, j, W_haengjin)) THEN ln
    ELSE Bind(SkipSpaces(ln, j + Len(W_haengjin)), LAMBDA k :
         IF k <= Len(ln) /\ ln[k] = ":"
         THEN SubSeq(ln, SkipSpaces(ln, k + 1), Len(ln)) ELSE ln))

HasArrow(ln) == "arrow" \in Range(ln)

\* <<place, route>>
split_location_and_route(cell_text) ==
  Bind(clean_text(cell_text), LAMBDA txt :
    IF txt = <<>> THEN <<<<>>, <<>>>>
    ELSE Bind(stripped_lines(txt), LAMBDA lines :
         IF lines = <<>> THEN <<txt, <<>>>>
         ELSE Bind(SelectSeq(lines, LAMBDA ln : ~is_route_line(ln)), LAMBDA place_lines :
              Bind(SelectSeq(lines, is_route_line), LAMBDA labelled :
              Bind(SelectSeq(place_lines, LAMBDA ln : ~HasArrow(ln)), LAMBDA tmp_place :
              Bind([k \in 1..Len(labelled) |-> strip_route_label(labelled[k])]
                     \o SelectSeq(place_lines, HasArrow), LAMBDA route_lines :
                <<IF tmp_place # <<>> THEN normalize_spaces(JoinWith(tmp_place, Sp))
                  ELSE lines[1],
                  normalize_spaces(JoinWith(route_lines, Sp))>>))))))

\* parse_table_rows lines 359-363 for one table row with the texts of its
\* time cell and its place cell: the row it appends, or none
table_rows(time_cell, place_cell) ==
  Bind(clean_text(time_cell), LAMBDA t_raw :
  Bind(split_location_and_route(clean_text(place_cell)), LAMBDA pr :
    IF t_raw = <<>> /\ pr[1] = <<>> /\ pr[2] = <<>> THEN <<>>
    ELSE <<Row(t_raw, pr[1], pr[2])>>))

(***************************************************************************)
(* Inputs of the text functions                                            *)
(***************************************************************************)
\* a time text: hour, gap, ":", minute, then, unless sep is empty, the
\* separator with sgap on both sides and a second time written the same way
TimeText(x) ==
  x.h1 \o x.gap \o <<":">> \o x.m1
    \o (IF x.sep = <<>> THEN <<>>
        ELSE x.sgap \o x.sep \o x.sgap \o x.h2 \o x.gap \o <<":">> \o x.m2)

Hours == {<<"9">>, <<"0", "9">>, <<"1", "8">>}

Minutes == {<<"0", "0">>, <<"3", "0">>}

\* what may stand between the hour and the colon
Gaps == {<<>>, <<" ">>, <<"\n">>, <<" ", "\n">>}

Separators == {<<"~">>, <<"wave">>, <<"wavedash">>, <<"-">>}

TimeInputs ==
  {[fn |-> "time", h1 |-> h1, m1 |-> m1, gap |-> g, sep |-> s, sgap |-> sg,
    h2 |-> h2, m2 |-> m2] :
     h1 \in Hours, m1 \in Minutes, g \in Gaps, s \in Separators, sg \in {<<>>, Sp},
     h2 \in {<<"1", "9">>}, m2 \in Minutes}
  \cup
  {[fn |-> "time", h1 |-> h1, m1 |-> m1, gap |-> g, sep |-> <<>>, sgap |-> <<>>,
    h2 |-> <<>>, m2 |-> <<>>] : h1 \in Hours, m1 \in Minutes, g \in Gaps}

\* a place cell: the place text, then the labelled march clause on a line of
\* its own or on the line of the place
CellText(x) ==
  x.place \o (IF x.place = <<>> THEN <<>> ELSE x.br)
    \o <<"refmark">> \o x.lgap \o W_haengjin \o <<":">> \o x.lgap \o x.clause

CellInputs ==
  {[fn |-> "cell", place |-> p, br |-> b, lgap |-> lg, clause |-> c] :
     p \in {<<>>, W_gwanghwamun_gwangjang, W_gwanghwamun \o Sp \o W_ap},
     b \in {<<"\n">>, Sp}, lg \in {<<>>, Sp},
     c \in {W_gwanghwamun \o <<"arrow">> \o W_sejongdaero, W_jongno}}

PlaceInputs ==
  {[fn |-> "places", text |-> t] :
     t \in { W_gwanghwamun,
             W_gwanghwamun \o Sp \o W_ap,
             W_gwanghwamun \o <<"arrow">> \o W_sejongdaero,
             W_gwanghwamun \o <<" ", "arrow", " ">> \o W_sejongdaero,
             W_gwanghwamun \o <<"~">> \o W_jongno \o <<"arrow">> \o W_sejongdaero,
             W_gwanghwamun \o <<" ", "<">> \o W_jongno \o <<">">>,
             <<"[">> \o W_gwanghwamun \o <<"]", " ", " ">> \o W_ap,
             <<>> }}

\* a remark that names the district and six streets and squares
R_streets ==
  W_jongnogu \o Sp \o W_sejongdaero \o Sp \o W_gwanghwamun_gwangjang \o Sp
    \o W_seoul \o <<"ro", " ">> \o W_busan \o <<"ro", " ">>
    \o <<"myeong", "mun", "ro", " ">> \o W_busan \o W_gwangjang

CandInputs ==
  {[fn |-> "cands", place |-> p, remark |-> r] :
     p \in {W_gwanghwamun, W_gwanghwamun_gwangjang, W_gwanghwamun \o Sp \o W_ap, <<>>},
     r \in {<<>>, W_sejongdaero, W_jongnogu \o Sp \o W_sejongdaero, R_streets}}

\* an office in Jongno whose texts name neither the city nor the place
IT_office == [title |-> <<"a">>, address |-> <<"b">>, point |-> P_gwanghwamun]

MaxRuns == 3

\* the lengths of a run of equal items
RunLengths == {1, 19, 20}

\* item lists for _choose_best_item, a box and a mode; the needle is the
\* place of the search
BestInputs ==
  {[fn |-> "best", items |-> l, bbox |-> b, bbox_mode |-> m] :
     l \in SeqsUpTo({[it |-> it, n |-> n] :
                       it \in {IT_plaza, IT_seoulro, IT_nopoint, IT_office},
                       n \in RunLengths}, MaxRuns) \ {<<>>},
     b \in {"jj_loose"}, m \in {"boost", "strict"}}

\* documents for best_table_by_content
TableInputs == {[fn |-> "tables", doc |-> l] : l \in SeqsUpTo(TableSet, MaxTables)}

\* tables for detect_columns
ColumnInputs == {[fn |-> "columns", trs |-> t] : t \in ColumnTables}

\* text blocks of parse_pdf between two times: digits, a comma, the counter
\* myeong, a blank and a syllable
MaxBlockLen == 5

HeadSymbols == {"1", "0", ",", "myeong", "gwang"}

HeadInputs == {[fn |-> "head", block |-> b] : b \in SeqsUpTo(HeadSymbols, MaxBlockLen)}

\* the newest CSV file of the data directory, if there is one: with or
\* without the columns of the date, its rows dated today, tomorrow or the day
\* after
MaxCsvRows == 2

CsvRows ==
  {[day |-> d, start_time |-> <<"0", "9", ":", "0", "0">>, end_time |-> <<"1", "0", ":", "3", "0">>,
    place |-> p, people |-> n] :
     d \in {Today, Tomorrow, Tomorrow + 1},
     p \in {W_gwanghwamun_gwangjang, json_dumps(<<W_gwanghwamun \o Sp \o W_ap, W_sejongdaero>>)},
     n \in {None, <<"3", "0", "0">>}}

CsvFiles ==
  {None} \cup {[dated |-> b, rows |-> rs] : b \in BOOLEAN, rs \in SeqsUpTo(CsvRows, MaxCsvRows)}

EndpointInputs == {[fn |-> "upcoming", csv |-> f] : f \in CsvFiles}

TextInputs ==
  TimeInputs \cup CellInputs \cup PlaceInputs \cup CandInputs \cup BestInputs
    \cup TableInputs \cup ColumnInputs \cup HeadInputs \cup EndpointInputs

(***************************************************************************)
(* Specification of the text functions: an input drawn in Init, then the   *)
(* function of its kind applied to it by both programs                     *)
(***************************************************************************)
InitText ==
  /\ rows \in TextInputs
  /\ hash_desc \in (IF rows.fn = "cands" THEN BOOLEAN ELSE {FALSE})
  /\ grouped = <<>> /\ regrouped = <<>>
  /\ pc = "t_input"
  /\ cfg = <<>> /\ cache = <<>> /\ geo = <<>> /\ fr = <<>>
  /\ issued = {} /\ last = <<>> /\ written = <<>>

\* the place that follows the time in the row and in the PDF text
TextPlace == W_gwanghwamun

\* parse_time_range on the time text and the events of a table row with that
\* time cell (crawler.py); the times of the rows parse_pdf makes of a PDF
\* whose text is the time text and a place (integrated_crawler.py)
ExtractTime ==
  /\ pc = "t_input" /\ rows.fn = "time"
  /\ \E t \in {TimeText(rows)} :
     \E rs \in {pdf_rows(t \o Sp \o TextPlace \o <<"\n">>)} :
       grouped' = [range |-> parse_time_range(t),
                   events |-> group_rows_by_time(filter_for_jongno(table_rows(t, TextPlace))),
                   pdf |-> [k \in 1..Len(rs) |-> <<rs[k].start_time, rs[k].end_time>>]]
  /\ pc' = "t_done"
  /\ UNCHANGED <<rows, regrouped>>
  /\ UNCHANGED runvars

\* crawler.py from a place cell to the events: parse_table_rows, the Jongno
\* filter, group_rows_by_time
SplitCell ==
  /\ pc = "t_input" /\ rows.fn = "cell"
  /\ \E rs \in {table_rows(T_0900_1030, CellText(rows))} :
       grouped' = [row |-> rs, events |-> group_rows_by_time(filter_for_jongno(rs))]
  /\ pc' = "t_done"
  /\ UNCHANGED <<rows, regrouped>>
  /\ UNCHANGED runvars

\* _extract_place_nodes, and again on its result joined with blanks
SplitPlaces ==
  /\ pc = "t_input" /\ rows.fn = "places"
  /\ \E nodes \in {_extract_place_nodes(rows.text)} :
       grouped' = [nodes |-> nodes, again |-> _extract_place_nodes(JoinWith(nodes, Sp))]
  /\ pc' = "t_done"
  /\ UNCHANGED <<rows, regrouped>>
  /\ UNCHANGED runvars

\* build_query_candidates of crawler.py and of integrated_crawler.py
BuildCandidates ==
  /\ pc = "t_input" /\ rows.fn = "cands"
  /\ grouped' = [crawler |-> build_query_candidates(rows.place, rows.remark).queries,
                 pdf |-> ic_build_query_candidates(rows.place, rows.remark)]
  /\ pc' = "t_done"
  /\ UNCHANGED <<rows, regrouped>>
  /\ UNCHANGED runvars

\* _choose_best_item on the items of a search for the place
ChooseBest ==
  /\ pc = "t_input" /\ rows.fn = "best"
  /\ grouped' = [best |-> _choose_best_item(rows.items, None, W_gwanghwamun, <<>>,
                                            BBOXES[rows.bbox], rows.bbox_mode)]
  /\ pc' = "t_done"
  /\ UNCHANGED <<rows, regrouped>>
  /\ UNCHANGED runvars

\* best_table_by_content on the tables of a document
BestTable ==
  /\ pc = "t_input" /\ rows.fn = "tables"
  /\ grouped' = [table |-> best_table_by_content(rows.doc)]
  /\ pc' = "t_done"
  /\ UNCHANGED <<rows, regrouped>>
  /\ UNCHANGED runvars

\* detect_columns on a table
DetectColumns ==
  /\ pc = "t_input" /\ rows.fn = "columns"
  /\ grouped' = [cols |-> detect_columns(rows.trs)]
  /\ pc' = "t_done"
  /\ UNCHANGED <<rows, regrouped>>
  /\ UNCHANGED runvars

\* _extract_headcount on a text block, and the headcount parse_pdf stores
\* (lines 289-299: the commas removed)
ExtractHeadcount ==
  /\ pc = "t_input" /\ rows.fn = "head"
  /\ \E h \in {_extract_headcount(rows.block)} :
       grouped' = [head |-> h,
                   clean |-> IF h.ok THEN SelectSeq(h.text, LAMBDA c : c # ",") ELSE <<>>]
  /\ pc' = "t_done"
  /\ UNCHANGED <<rows, regrouped>>
  /\ UNCHANGED runvars

\* a request to /upcoming-protests (main.py lines 79-143)
UpcomingProtests ==
  /\ pc = "t_input" /\ rows.fn = "upcoming"
  /\ grouped' = upcoming_protests(rows.csv)
  /\ pc' = "t_done"
  /\ UNCHANGED <<rows, regrouped>>
  /\ UNCHANGED runvars

NextText ==
  \/ ExtractTime \/ SplitCell \/ SplitPlaces \/ BuildCandidates \/ ChooseBest
  \/ BestTable \/ DetectColumns \/ ExtractHeadcount \/ UpcomingProtests

SpecText == InitText /\ [][NextText]_vars

(***************************************************************************)
(* The runs against an API that finds nothing: every request succeeds and  *)
(* its response holds no result.  Nothing the programs wait for is         *)
(* withheld, so a run takes its next step as long as it has one.           *)
(***************************************************************************)
InitStub == InitRun /\ cfg.source = "ok"

StubCrawlerSearchPlace == CrawlerSearchPlace /\ last'.empty

StubCrawlerAddress == CrawlerAddress /\ last'.empty

StubIntegratedSearchPlace == IntegratedSearchPlace /\ last'.empty

StubIntegratedAddress == IntegratedAddress /\ last'.empty

NextStub ==
  \/ CrawlerMain \/ CrawlerNextPlace \/ StubCrawlerSearchPlace \/ StubCrawlerAddress
  \/ CrawlerSave
  \/ IntegratedMain \/ IntegratedNextPlace \/ StubIntegratedSearchPlace
  \/ StubIntegratedAddress \/ IntegratedSave

SpecStub == InitStub /\ [][NextStub]_vars /\ WF_vars(NextStub)
(***************************************************************************)
(* Properties of the grouper                                               *)
(***************************************************************************)
EventKey(g) == <<g.start_time, g.end_time>>

RowsOfKey(rs, key) == {i \in 1..Len(rs) : parse_time_range(rs[i].time) = key}

PlaceOf(r) == clean_text(r.place)

RemarkOf(r) == clean_text(r.route)

\* list holds exactly the non-empty texts of the rows idx, each once, in the
\* order of their first occurrence among those rows
IsFirstSeenUnion(list, rs, idx, Txt(_)) ==
  LET First(x) == CHOOSE i \in idx :
                    Txt(rs[i]) = x /\ \A j \in idx : Txt(rs[j]) = x => i <= j
  IN  /\ Range(list) = {Txt(rs[i]) : i \in idx} \ {<<>>}
      /\ NoDup(list)
      /\ \A a, b \in 1..Len(list) : a < b => First(list[a]) < First(list[b])

MergeOk(out, rs) ==
  \A i \in 1..Len(rs) :
    LET key == parse_time_range(rs[i].time)
    IN  \E k \in 1..Len(out) :
          /\ EventKey(out[k]) = key
          /\ \A k2 \in 1..Len(out) : EventKey(out[k2]) = key => k2 = k
          /\ IsFirstSeenUnion(out[k].places, rs, RowsOfKey(rs, key), PlaceOf)
          /\ IsFirstSeenUnion(out[k].remarks, rs, RowsOfKey(rs, key), RemarkOf)

\* C6: all rows with the same (start_time, end_time) end up in one event whose
\* places are those rows' (cleaned) places in row order, first occurrence kept,
\* and likewise for the remarks; no row's place is lost or overwritten.
C6_MergeIsAdditive ==
  /\ pc = "grouped" => MergeOk(grouped, rows)
  /\ pc = "regrouped" => MergeOk(regrouped, rows)

\* three rows with places share one time key and merge into an event with two
\* places: one place was a duplicate, none was lost
C6_Witness ==
  /\ pc = "grouped"
  /\ \E k \in 1..Len(grouped) :
       /\ Len(grouped[k].places) = 2
       /\ Len(grouped[k].remarks) >= 1
       /\ Cardinality({i \in RowsOfKey(rows, EventKey(grouped[k])) :
                         PlaceOf(rows[i]) # <<>>}) = 3

\* C8: grouping a permutation of the rows gives the same sequence of time keys
\* and, key by key, the same set of places and the same set of remarks.
C8_OrderIndependent ==
  pc = "regrouped" =>
    /\ Len(regrouped) = Len(grouped)
    /\ \A k \in 1..Len(grouped) :
         /\ EventKey(regrouped[k]) = EventKey(grouped[k])
         /\ Range(regrouped[k].places) = Range(grouped[k].places)
         /\ Range(regrouped[k].remarks) = Range(grouped[k].remarks)

\* a time "HH:MM" of the clock: hour at most 23, minute at most 59
IsClock(t) ==
  /\ Len(t) = 5
  /\ ToInt(SubSeq(t, 1, 2)) <= 23
  /\ ToInt(SubSeq(t, 4, 5)) <= 59

TimeOrMax(t) == IF t = <<>> THEN <<"9", "9", ":", "9", "9">> ELSE t

SortedByTime(out) ==
  \A i, j \in 1..Len(out) : i < j =>
    /\ ~StrLess(TimeOrMax(out[j].start_time), TimeOrMax(out[i].start_time))
    /\ TimeOrMax(out[j].start_time) = TimeOrMax(out[i].start_time)
         => ~StrLess(TimeOrMax(out[j].end_time), TimeOrMax(out[i].end_time))
    /\ (out[i].start_time = out[j].start_time /\ out[i].end_time = <<>>)
         => ~IsClock(out[j].end_time)
    /\ out[i].start_time = <<>> => ~IsClock(out[j].start_time)

\* C9: the events are in ascending order of (start_time, end_time) with a missing
\* time counted as the sentinel 99:99: no event with a clock end time follows the
\* open-ended event of the same start, and no event with a clock start time
\* follows an event without start.
C9_SortedWithSentinel ==
  /\ pc = "grouped" => SortedByTime(grouped)
  /\ pc = "regrouped" => SortedByTime(regrouped)

\* the rows were given with the open-ended and the unparseable row first, and
\* the result has the timed events first, then the open-ended, then the one
\* without start
C9_Witness ==
  /\ pc = "grouped"
  /\ Len(rows) = 3
  /\ parse_time_range(rows[1].time) = <<<<>>, <<>>>>
  /\ parse_time_range(rows[2].time)[2] = <<>>
  /\ Len(grouped) = 3
  /\ IsClock(grouped[1].end_time)
  /\ grouped[2].start_time = grouped[1].start_time
  /\ grouped[2].end_time = <<>>
  /\ grouped[3].start_time = <<>>

\* C10: a row without a parseable time range contributes to no event: no event
\* of the result has an empty start_time.
C10_UnparseableRowDropped ==
  pc \in {"grouped", "regrouped"} =>
    \A k \in 1..Len(grouped) : grouped[k].start_time # <<>>


(***************************************************************************)
(* Properties of the geocoding runs                                        *)
(***************************************************************************)
\* a request is about to be sent for the place at hand
InGeocoder == pc \in {"c_call", "i_call"}

\* geocoding is over: the run is about to write its tables or has written them
GeocodingOver == pc \in {"c_save", "i_save", "i_except", "written"}

\* C1: after geocoding, every event (crawler.py) and every record
\* (integrated_crawler.py) has a list of latitudes and a list of longitudes
\* with exactly as many entries as it has places
C1_ListsMatchPlaces ==
  GeocodingOver =>
    \A k \in 1..Len(grouped) :
      IF cfg.prog = "crawler"
      THEN /\ Len(grouped[k].lats) = Len(grouped[k].places)
           /\ Len(grouped[k].lons) = Len(grouped[k].places)
      ELSE /\ Len(grouped[k].lat) = Len(rows[k].nodes)
           /\ Len(grouped[k].lon) = Len(rows[k].nodes)

\* the coordinates in the lists lats and lons all lie in the box bbox
AllInBox(lats, lons, bbox) ==
  \A i \in 1..Len(lats) : lats[i] # None => _in_bbox(lats[i][1], lons[i][1], bbox)

\* C2: with a box and bbox_mode strict, no coordinate that crawler.py's geocoder
\* returns for a place lies outside the box
C2_StrictStaysInBox ==
  cfg.prog = "crawler" /\ cfg.bbox_mode = "strict" =>
    /\ AllInBox(geo.lats, geo.lons, BBOXES[cfg.bbox])
    /\ \A k \in 1..Len(grouped) :
         AllInBox(grouped[k].lats, grouped[k].lons, BBOXES[cfg.bbox])

\* C3: within a run no query string is sent to the same external service
\* twice (the request for the next page of a search aside): a request is for
\* a query that the run has not sent to that service before
C3_QuerySentOnce ==
  [][InGeocoder /\ last'.page = 1 => <<last'.api, last'.q>> \notin issued]_vars

\* C4: a failed external request never ends the geocoding: the run neither
\* dies of the exception nor leaves the loop over the places through main's
\* except clause
C4_FailureIsNoResult == pc \notin {"crashed", "i_except"}

\* C5 as stated: once a place search for a candidate of a place has given an
\* item with a coordinate, no further request is sent for that place
C5_StopsAtFirstCoordinate ==
  ~(/\ InGeocoder
    /\ last.g = geo.g /\ last.p = geo.p
    /\ last.api = "place" /\ ~last.more /\ last.coord_seen)

\* the last request gave a coordinate that the geocoder accepts: crawler.py
\* takes the coordinate of the item chosen from a finished place search, and
\* an address coordinate inside the box; integrated_crawler.py takes what
\* geocode_vworld returns if it passes the Seoul box check or the check is off
Accepted ==
  /\ last.hit # None /\ ~last.more
  /\ IF cfg.prog = "crawler"
     THEN \/ last.api = "place"
          \/ _in_bbox(last.hit[1], last.hit[2], BBOXES[cfg.bbox])
     ELSE HitAccepted(last.hit, cfg.restrict_seoul)

\* the number of candidates of the place at hand whose place search must be
\* behind the request about to be sent
TriedBefore ==
  IF cfg.prog = "crawler" /\ fr.phase # "place" THEN Len(geo.queries) ELSE fr.i - 1

\* C5: a request for a place is sent only when every earlier candidate of the
\* list has had its place search and no request for that place has given a
\* coordinate that the geocoder accepts
C5_StopsAtAcceptedResult ==
  InGeocoder =>
    /\ \A j \in 1..TriedBefore : <<"place", geo.queries[j]>> \in issued
    /\ ~(last.g = geo.g /\ last.p = geo.p /\ Accepted)

\* the first request of a run of crawler.py gave an accepted coordinate and
\* the place is done with that coordinate and no second request
C5_Witness ==
  /\ cfg.prog = "crawler" /\ pc = "c_place"
  /\ last.g = geo.g /\ last.p + 1 = geo.p
  /\ Accepted
  /\ Cardinality(issued) = 1
  /\ geo.lats[last.p] = <<last.hit[1]>> /\ geo.lons[last.p] = <<last.hit[2]>>

\* C7: in every table a run writes, no two records have the same start_time
\* and the same end_time
C7_TimeKeyUnique ==
  \A t \in 1..Len(written) : \A i, j \in 1..Len(written[t]) :
    (/\ written[t][i].start_time = written[t][j].start_time
     /\ written[t][i].end_time = written[t][j].end_time) => i = j

\* the record holds a place or a remark; crawler.py writes the places as the
\* JSON text of a list
HasPlaceOrRemark(rec) ==
  \/ rec.remark # <<>>
  \/ IF cfg.prog = "crawler" THEN rec.place # json_dumps(<<>>) ELSE rec.place # <<>>

\* C11: every record of every table a run writes carries at least one place or
\* a remark
C11_PlaceOrRemark ==
  \A t \in 1..Len(written) : \A k \in 1..Len(written[t]) : HasPlaceOrRemark(written[t][k])

(***************************************************************************)
(* Claims about the text functions                                         *)
(***************************************************************************)
\* hour h and minute m written as HH:MM
PaddedTime(h, m) == Fmt02d(ToInt(h)) \o <<":">> \o Fmt02d(ToInt(m))

TimeDone == pc = "t_done" /\ rows.fn = "time"

\* C12: of a time text with a separator and a second time, parse_time_range
\* returns the start and the end zero-padded to HH:MM, and parse_pdf makes
\* one row with the same start and end
C12_TimeRangePadded ==
  (TimeDone /\ rows.sep # <<>>) =>
     /\ grouped.range = <<PaddedTime(rows.h1, rows.m1), PaddedTime(rows.h2, rows.m2)>>
     /\ grouped.pdf = <<<<PaddedTime(rows.h1, rows.m1), PaddedTime(rows.h2, rows.m2)>>>>

\* C13: of a time text that holds a start time only, parse_time_range returns
\* the zero-padded start and an empty end, the table row becomes one event
\* with these times, and so does the row of the PDF text
C13_StartOnlyIsOpenEnded ==
  (TimeDone /\ rows.sep = <<>>) =>
     /\ grouped.range = <<PaddedTime(rows.h1, rows.m1), <<>>>>
     /\ Len(grouped.events) = 1
     /\ grouped.events[1].start_time = PaddedTime(rows.h1, rows.m1)
     /\ grouped.events[1].end_time = <<>>
     /\ grouped.pdf = <<<<PaddedTime(rows.h1, rows.m1), <<>>>>>>

CellDone == pc = "t_done" /\ rows.fn = "cell"

\* C14: of a place cell with a labelled march clause, no place of an event
\* holds the label or the clause, and the clause without its label is among
\* the event's remarks
C14_RouteClauseOnlyInRemarks ==
  CellDone =>
    /\ grouped.events # <<>>
    /\ \A k \in 1..Len(grouped.events) :
         /\ \A j \in 1..Len(grouped.events[k].places) :
              /\ "refmark" \notin Range(grouped.events[k].places[j])
              /\ ~Contains(grouped.events[k].places[j], rows.clause)
         /\ rows.clause \in Range(grouped.events[k].remarks)

\* C15: _extract_place_nodes of its own result joined with blanks is that
\* result again
C15_SplitPlacesIdempotent ==
  (pc = "t_done" /\ rows.fn = "places") => grouped.again = grouped.nodes

\* the list holds no query twice, no empty query, and no more than the cap
DistinctBounded(qs) ==
  /\ NoDup(qs)
  /\ \A k \in 1..Len(qs) : qs[k] # <<>>
  /\ Len(qs) <= MaxQueries

\* C16: build_query_candidates of either program returns pairwise distinct,
\* non-empty queries, at most fifty of them
C16_CandidatesDistinctBounded ==
  (pc = "t_done" /\ rows.fn = "cands") =>
     DistinctBounded(grouped.crawler) /\ DistinctBounded(grouped.pdf)

BestDone == pc = "t_done" /\ rows.fn = "best"

\* score() of the items of run k of the input
RunScore(k) ==
  score(rows.items[k].it, None, W_gwanghwamun, <<>>, BBOXES[rows.bbox], rows.bbox_mode)

\* the number of items ranked before the first item of run k: those of a
\* higher score, and those of the same score that come earlier in the list
RankedBefore(k) ==
  Bind(RunScore(k), LAMBDA sc :
    CountBefore([j \in 1..Len(rows.items) |->
                   [n |-> IF RunScore(j) > sc \/ (RunScore(j) = sc /\ j < k)
                          THEN rows.items[j].n ELSE 0]],
                Len(rows.items) + 1))

\* run k holds one of the twenty highest-ranked items and lies in the box
InBoxTop(k) ==
  /\ RankedBefore(k) < TopN
  /\ HasXY(rows.items[k].it)
  /\ _in_bbox(rows.items[k].it.point.y, rows.items[k].it.point.x, BBOXES[rows.bbox])

\* C22: of a non-empty item list and a box, _choose_best_item returns the
\* highest-ranked item in the box among the twenty highest-ranked items, and
\* the highest-ranked item of all if none of the twenty lies in the box
C22_BestItemInBoxFirst ==
  BestDone =>
    \E k \in 1..Len(rows.items) :
      /\ grouped.best = rows.items[k].it
      /\ IF \E j \in 1..Len(rows.items) : InBoxTop(j)
         THEN InBoxTop(k) /\ \A j \in 1..Len(rows.items) :
                               InBoxTop(j) => RankedBefore(k) <= RankedBefore(j)
         ELSE RankedBefore(k) = 0

\* twenty items outside the box rank before an item in the box, and the
\* first of the twenty is returned
C22_Witness ==
  /\ BestDone
  /\ \E j \in 1..Len(rows.items) :
       /\ HasXY(rows.items[j].it)
       /\ _in_bbox(rows.items[j].it.point.y, rows.items[j].it.point.x, BBOXES[rows.bbox])
       /\ RankedBefore(j) >= TopN
  /\ \A j \in 1..Len(rows.items) : ~InBoxTop(j)
  /\ grouped.best = IT_seoulro

\* (time_hits, long_hits) of a table counted over all rows after the first
FullScore(trs) ==
  << Cardinality({i \in 2..Len(trs) : \E c \in 1..Len(trs[i]) : HasTime(clean_text(trs[i][c]))}),
     Cardinality({i \in 2..Len(trs) :
                    \E c \in 1..Len(trs[i]) : Len(clean_text(trs[i][c])) >= LongText}) >>

\* C23: of a document with tables, best_table_by_content returns the first of
\* the tables whose score, counted over all rows beyond the header, is the
\* greatest of the document
C23_BestTableGreatestScore ==
  (pc = "t_done" /\ rows.fn = "tables" /\ rows.doc # <<>>) =>
     /\ grouped.table \in 1..Len(rows.doc)
     /\ \A j \in 1..Len(rows.doc) :
          /\ ~TupleGreater(FullScore(rows.doc[j]), FullScore(rows.doc[grouped.table]))
          /\ j < grouped.table =>
               TupleGreater(FullScore(rows.doc[grouped.table]), FullScore(rows.doc[j]))

ColumnsDone == pc = "t_done" /\ rows.fn = "columns"

\* the number of columns of the table: the cells of its first data row
ColumnCount == Len(rows.trs[grouped.cols.start + 1])

\* the rows that detect_columns samples
Sampled == SampleRows(rows.trs, grouped.cols.start, ColumnCount)

\* the number of sampled cells of column j that hold a time
TimeCells(j) == Cardinality({i \in Sampled : HasTime(clean_text(rows.trs[i][j + 1]))})

\* the length of the sampled texts of column j; all columns have equally
\* many, so it orders the columns as their average lengths do
TextLength(j) == ColumnLength(rows.trs, Sampled, j + 1, 1)

\* C24: of a table with two or more columns, detect_columns returns for the
\* time column the first of the columns with the most time cells, and for
\* the place column the first of the other columns with the greatest average
\* text length; the two columns differ
C24_ColumnsByContent ==
  (ColumnsDone /\ rows.trs # <<>> /\ ColumnCount >= 2) =>
     \E ct \in 0..(ColumnCount - 1) : \E cp \in 0..(ColumnCount - 1) :
       /\ grouped.cols.col_time = ct /\ grouped.cols.col_place = cp /\ ct # cp
       /\ \A j \in 0..(ColumnCount - 1) :
            /\ TimeCells(j) <= TimeCells(ct)
            /\ j < ct => TimeCells(j) < TimeCells(ct)
            /\ j # ct => /\ TextLength(j) <= TextLength(cp)
                         /\ j < cp => TextLength(j) < TextLength(cp)

\* two columns hold equally many times and the first is the time column; the
\* longest texts are in the time column and the place column is another
C24_Witness ==
  /\ ColumnsDone /\ rows.trs # <<>> /\ ColumnCount = 3
  /\ grouped.cols.col_time = 0 /\ grouped.cols.col_place = 1
  /\ TimeCells(0) = TimeCells(2) /\ TimeCells(0) > 0
  /\ TextLength(1) = TextLength(2)
  /\ Len(rows.trs) = 3

(***************************************************************************)
(* integrated_crawler.py: the headcount of a text block                    *)
(***************************************************************************)
HeadDone == pc = "t_done" /\ rows.fn = "head"

\* the block has no number followed by the counter myeong
NoCounterForm ==
  \A i \in 1..Len(rows.block) : \A a \in 1..Len(HeadDigits) :
    ~HeadAt(rows.block, i, HeadDigits[a]).ok

\* the value of the digits ds
RECURSIVE DigitsValue(_)
DigitsValue(ds) ==
  IF ds = <<>> THEN 0
  ELSE 10 * DigitsValue(SubSeq(ds, 1, Len(ds) - 1)) + DigitVal(ds[Len(ds)])

\* C29: for a block without a number followed by myeong, what
\* _extract_headcount returns is a whole number of the block, with no digit
\* before it and no digit or thousands group after it, worth 100 or more, and
\* parse_pdf stores its digits
C29_HeadcountWholeNumber ==
  (HeadDone /\ NoCounterForm /\ grouped.head.ok) =>
    /\ ~IsDigitAt(rows.block, grouped.head.from - 1)
    /\ ~IsDigitAt(rows.block, grouped.head.to)
    /\ CommaGroupsEnd(rows.block, grouped.head.to) = grouped.head.to
    /\ DigitsValue(grouped.clean) >= 100
    /\ grouped.clean = SelectSeq(grouped.head.text, LAMBDA c : c \in Digits)

(***************************************************************************)
(* main.py: the answers of /upcoming-protests                              *)
(***************************************************************************)
EndpointDone == pc = "t_done" /\ rows.fn = "upcoming"

\* r is a chat response whose one output is a simpleText with a text
IsChatResponse(r) ==
  /\ r # None
  /\ Len(r.template.outputs) = 1
  /\ r.template.outputs[1].simpleText.text # <<>>

\* C30: /upcoming-protests answers with a chat response that holds a text,
\* whether there is no CSV file, the file has no date columns, no row is dated
\* today or tomorrow, or there are such rows
C30_AlwaysChatResponse == EndpointDone => IsChatResponse(grouped.response)

\* every entry of the list is null
AllNull(l) == \A i \in 1..Len(l) : l[i] = None

\* the number of places of record k that the geocoder reads
PlacesRead(k) ==
  IF cfg.prog = "crawler" THEN Len(grouped[k].places)
  ELSE Len(place_nodes(grouped[k].place))

\* the run has written its tables; every record of the full table has one
\* null latitude and one null longitude for each of its places, the place of
\* the last request among them
StubDone ==
  /\ pc = "written"
  /\ Len(written[1]) = Len(grouped)
  /\ \A k \in 1..Len(grouped) :
       /\ Len(written[1][k].lat) = PlacesRead(k) /\ AllNull(written[1][k].lat)
       /\ Len(written[1][k].lon) = PlacesRead(k) /\ AllNull(written[1][k].lon)
  /\ last.api # "none" =>
       /\ written[1][last.g].lat[last.p] = None
       /\ written[1][last.g].lon[last.p] = None

C18_NoSourceNoOutput ==
  cfg.source # "ok" => (written = <<>> /\ pc # "written")

\* the run is over: main has returned or an exception or SystemExit has ended it
RunOver == pc \in {"written", "fatal", "crashed", "raised"}

\* C19: a run that is over has either written its tables and printed the
\* completion line, or has printed the one message of a source that is not
\* available and written nothing
C19_TwoOutcomes ==
  RunOver =>
    \/ pc = "written" /\ written # <<>>
    \/ pc = "fatal" /\ cfg.source # "ok" /\ written = <<>>

\* C20: a request is sent after an earlier request of the run only when
\* time.sleep has been called since the earlier one
C20_DelayBetweenCalls ==
  (InGeocoder /\ last.api # "none") => last.slept

(***************************************************************************)
(* Properties of crawler.py's geocode_vworld_candidates                    *)
(***************************************************************************)
\* the last request was for the place at hand
SamePlace == last.api # "none" /\ last.g = geo.g /\ last.p = geo.p

\* place search, address fallback, context-only search
StrategyRank(phase) == CASE phase = "place" -> 1 [] phase = "addr" -> 2 [] phase = "ctx" -> 3

\* the run has sent the place search of every query of qs
PlaceSearched(qs) == \A j \in 1..Len(qs) : <<"place", qs[j]>> \in issued

\* the run has sent the road and the parcel lookup of every address of as
AddrLookedUp(as) ==
  \A j \in 1..Len(as) : <<"road", as[j]>> \in issued /\ <<"parcel", as[j]>> \in issued

\* the place before the place at hand has been given up after a request
GivenUp ==
  /\ cfg.prog = "crawler" /\ pc = "c_place"
  /\ last.api # "none" /\ last.slept /\ last.g = geo.g /\ last.p + 1 = geo.p
  /\ geo.lats[last.p] = None

\* C21: a request of the address fallback is sent only after the place search
\* of every candidate, the parcel lookup of an address only right after its
\* road lookup, a context-only search only after both lookups of every
\* address; no request follows one of a later strategy or one that gave an
\* accepted coordinate; and a place is given up only when all place searches,
\* all address lookups and all context-only searches have been sent
C21_StrategyOrder ==
  /\ (cfg.prog = "crawler" /\ pc = "c_call") =>
       /\ fr.phase \in {"addr", "ctx"} => PlaceSearched(geo.queries)
       /\ (fr.phase = "addr" /\ fr.addr_type = "parcel") =>
            SamePlace /\ last.api = "road" /\ last.q = CallQuery(geo, fr)
       /\ fr.phase = "ctx" => AddrLookedUp(addr_try(geo.queries, geo.gu_hint))
       /\ SamePlace => ~Accepted /\ StrategyRank(last.phase) <= StrategyRank(fr.phase)
  /\ GivenUp =>
       \E b \in {build_query_candidates(grouped[last.g].places[last.p],
                                        remark_context(grouped[last.g]))} :
       \E gu \in {event_gu_hint(grouped[last.g])} :
         /\ PlaceSearched(b.queries)
         /\ AddrLookedUp(addr_try(b.queries, gu))
         /\ PlaceSearched([k \in 1..Len(b.ctx_terms) |-> ctx_query(gu, b.ctx_terms[k])])

\* a place has been given up after the last context-only search, which came
\* after place searches and address lookups for the same place
C21_Witness ==
  /\ GivenUp /\ last.phase = "ctx"
  /\ \E x \in issued : x[1] = "parcel"
  /\ \E x \in issued : x[1] = "place" /\ x[2] # last.q

(***************************************************************************)
(* Properties of integrated_crawler.py's geocode_rows_inplace              *)
(***************************************************************************)
\* every coordinate pair of the lists lats and lons lies in SEOUL_BBOX
SeoulOnly(lats, lons) ==
  /\ Len(lats) = Len(lons)
  /\ \A i \in 1..Len(lats) :
       /\ lats[i] = None <=> lons[i] = None
       /\ lats[i] # None => in_seoul_bbox(lats[i][1], lons[i][1])

\* the last request gave a coordinate outside SEOUL_BBOX while restrict_seoul
\* is on
Rejected ==
  /\ cfg.prog = "integrated" /\ cfg.restrict_seoul
  /\ last.hit # None /\ ~in_seoul_bbox(last.hit[1], last.hit[2])

\* the candidates of the node the last request was for
LastCandidates ==
  node_candidates(place_nodes(grouped[last.g].place)[last.p], grouped[last.g].remark)

\* C25: with restrict_seoul on, every latitude and longitude that
\* geocode_rows_inplace puts into a row, from a response or from the cache,
\* lies in SEOUL_BBOX; after a result outside the box the result is cached but
\* not taken: the next request is the place search of a later candidate, and
\* the node gets no coordinate only if every candidate has been tried
C25_RestrictSeoulInBox ==
  (cfg.prog = "integrated" /\ cfg.restrict_seoul) =>
    /\ SeoulOnly(geo.lats, geo.lons)
    /\ \A k \in 1..Len(grouped) :
         pc \notin {"start", "fatal", "raised"} => SeoulOnly(grouped[k].lat, grouped[k].lon)
    /\ (Rejected /\ pc = "i_call" /\ last.g = geo.g /\ last.p = geo.p) =>
         /\ fr.phase = "place"
         /\ \E j \in 1..(fr.i - 1) : geo.queries[j] = last.q /\ cache[last.q] = last.hit
    /\ (Rejected /\ pc = "i_place" /\ last.g = geo.g /\ last.p + 1 = geo.p) =>
         /\ cache[last.q] = last.hit
         /\ geo.lats[last.p] = None =>
              \A j \in 1..Len(LastCandidates) : LastCandidates[j] \in DOMAIN cache

\* a node has got a coordinate in the box from a later candidate after an
\* earlier candidate of it gave a coordinate outside the box
C25_Witness ==
  /\ cfg.prog = "integrated" /\ cfg.restrict_seoul
  /\ pc = "i_place" /\ last.g = geo.g /\ last.p + 1 = geo.p
  /\ geo.lats[last.p] # None /\ in_seoul_bbox(geo.lats[last.p][1], geo.lons[last.p][1])
  /\ \E j \in 1..Len(LastCandidates) :
       /\ LastCandidates[j] \in DOMAIN cache
       /\ cache[LastCandidates[j]] # None
       /\ ~in_seoul_bbox(cache[LastCandidates[j]][1], cache[LastCandidates[j]][2])

(***************************************************************************)
(* Properties of crawler.py's cache of results                             *)
(***************************************************************************)
\* C26: in a run of crawler.py every coordinate in the cache is kept under a
\* query that the run has itself sent to the place search or to the address
\* lookup (a coordinate a query has produced is kept under that query)
C26_CacheSoundForKey ==
  cfg.prog = "crawler" =>
    \A q \in DOMAIN cache : cache[q] # None => \E x \in issued : x[2] = q

(***************************************************************************)
(* integrated_crawler.py: main after an exception of the geocoder          *)
(***************************************************************************)
\* geocode_rows_inplace has ended in main's except clause: the loop over the
\* rows has not come to its end
Raised == cfg.prog = "integrated" /\ pc \in {"i_except", "written"} /\ geo.g <= Len(grouped)

\* every row of the table has as many latitudes and as many longitudes as it
\* has places
ListsComplete(table) ==
  \A k \in 1..Len(table) :
    /\ Len(table[k].lat) = Len(place_nodes(table[k].place))
    /\ Len(table[k].lon) = Len(place_nodes(table[k].place))

\* C27: when geocode_rows_inplace has raised, main has still written the table
\* of all rows and the table of the Jongno rows, and every written row has as
\* many latitudes and longitudes as places
C27_RaisedStillComplete ==
  (Raised /\ pc = "written") =>
    /\ Len(written) = 2
    /\ Len(written[1]) = Len(rows)
    /\ ListsComplete(written[1]) /\ ListsComplete(written[2])

(***************************************************************************)
(* What the geocoders leave alone                                          *)
(***************************************************************************)
CoordinateFields == {"lat", "lon", "lats", "lons"}

\* the events or rows of the table t without their coordinate fields
Stripped(t) ==
  [k \in 1..Len(t) |-> [f \in DOMAIN t[k] \ CoordinateFields |-> t[k][f]]]

\* C28: from the entry of geocode_grouped_inplace or geocode_rows_inplace on,
\* no step changes the number or the order of the events or rows or any of
\* their fields other than the lists of latitudes and longitudes, whatever the
\* external calls answer
C28_OnlyCoordinatesChange ==
  [][pc # "start" => Stripped(grouped') = Stripped(grouped) /\ rows' = rows]_vars

\* geocoding has ended for two events or rows and has put a coordinate into
\* one and none into the other
C28_Witness ==
  /\ pc \in {"c_save", "i_save"} /\ Len(grouped) = 2
  /\ \E k, m \in 1..2 :
       IF cfg.prog = "crawler"
       THEN /\ \E i \in 1..Len(grouped[k].lats) : grouped[k].lats[i] # None
            /\ \E i \in 1..Len(grouped[m].lats) : grouped[m].lats[i] = None
       ELSE /\ \E i \in 1..Len(grouped[k].lat) : grouped[k].lat[i] # None
            /\ \E i \in 1..Len(grouped[m].lat) : grouped[m].lat[i] = None
====
